---- MODULE Spec2Model ----
(***************************************************************************)
(* Model of the history-enabled calculator of src/src/App.tsx (the last    *)
(* variant in the file, lines 587-1191): the pure reducer reduceOperator,  *)
(* the arithmetic evaluator compute, the handlers handleNumber, handleDot, *)
(* handleBackspace, handleClear, handleOperator, onSelectHistory, and the  *)
(* effect that commits a pending history payload to the ledger.            *)
(* The earlier history-less calculator of src/unnamed/part_000 is modelled  *)
(* beside it (definitions Earlier_...), for the comparison of the two.     *)
(*                                                                         *)
(* Representation.                                                         *)
(*  - A JavaScript string is a sequence of one-character strings; a        *)
(*    character outside ASCII is written by its code point ("U+00D7" is    *)
(*    the multiplication sign).                                            *)
(*  - A JavaScript number x is the integer x * Scale (fixed point with     *)
(*    FracDigits decimal places).  Inside the window the model explores    *)
(*    (see InDomain) every value has at most 15 significant digits, so     *)
(*    decimal.js arithmetic, Decimal.toNumber and Number.toString are      *)
(*    exact there and the fixed point value is the JavaScript value.       *)
(*    The numbers as the program has them, IEEE 754 binary64 values and    *)
(*    the decimals of decimal.js, are modelled beside the fixed point      *)
(*    (parseFloat64, compute64, NumberToString64); ArithmeticSpec runs the *)
(*    calculator on operands typed in and compares the two.                *)
(*  - "T | null" is a sequence of length at most one: null is <<>> and a   *)
(*    value v is <<v>>.  The nullable operator string is the exception: it *)
(*    is a string, with "null" for null.                                   *)
(*                                                                         *)
(* Steps.  The callbacks of the program run one at a time, with React in   *)
(* between: a command (the handler calls setState, React applies the       *)
(* updater, renders and schedules the effect callback when its             *)
(* dependencies changed), the effect callback (Effect, which only queues   *)
(* the setHistory update), and the render for the queued updates           *)
(* (RenderHistory, where the ledger changes).  When React runs the         *)
(* scheduled callbacks depends on the root: a further command may be       *)
(* handled before the ledger is rendered, and before the effect callback   *)
(* has run, in which case React runs that callback inside the command,     *)
(* before the render that calls its updater: the callback reads the ref    *)
(* as the command found it, the updater writes it afterwards.  All these   *)
(* orders are steps of the model.                                          *)
(*                                                                         *)
(* The exploration is bounded: sessions of at most MaxSteps commands       *)
(* (steps counts them), operand texts and results inside the numeric       *)
(* window (TypedInWindow, OperatorInWindow).  A command that would leave   *)
(* the window is not taken.                                                *)
(***************************************************************************)
EXTENDS Integers, Sequences, FiniteSets, TLC

VARIABLES
    \* the program: useState state and history, the two refs
    state, history, pendingHistoryRef, lastHistoryKeyRef,
    \* what React holds between the callbacks: the command whose render
    \* scheduled the effect callback that has not run yet (<<>> when none is
    \* scheduled), and the payloads of the setHistory updates queued and not
    \* yet rendered
    effectPending, historyUpdates,
    \* the number of commands handled so far
    steps,
    \* history variable: the number of Equals commands handled so far whose
    \* evaluation gave a number
    evaluations,
    \* history variables: the callback run last (a command, <<"Effect">> for
    \* the effect callback, <<"RenderHistory">> for the render of the queued
    \* ledger updates; <<>> before the first) and the program's variables
    \* just before it ran
    lastCommand, before

vars == <<state, history, pendingHistoryRef, lastHistoryKeyRef, effectPending,
          historyUpdates, steps, evaluations, lastCommand, before>>

(***************************************************************************)
(* Bounds of the exploration.                                              *)
(***************************************************************************)
\* number of commands of a session: every sequence of at most MaxSteps
\* commands is explored
MaxSteps == 6
\* decimal places carried by the fixed-point numbers
FracDigits == 1
\* largest magnitude of an operand or a result
MaxValue == 999
\* the digit keys pressed
Digits == {"0", "1", "2"}
\* the longer sessions of LedgerSpec and the keys pressed in them
MaxLedgerSteps == 7
LedgerDigits == {"1"}
LedgerOperatorTokens == {"+", "-", "="}
\* the sessions of VariantSpec, the digit keys and the operator commands
MaxVariantSteps == 5
VariantDigits == {"0", "1", "2"}
VariantOperators == {"+", "-", "*", "/", "="}
\* the operands of ArithmeticSpec: the decimals 0, 0.1, 0.2, ... up to
\* MaxTenths tenths
MaxTenths == 30
\* the sessions of KeySpec, the keys pressed and the buttons clicked in them
MaxKeySteps == 5
Keys == {"1", ".", "+", "*", "/", "Enter", "=", "Escape", "c", "C", "Backspace",
         "x", "Tab", "U+00D7", "U+00F7"}
Buttons == {"1", ".", "C", "+", "U+00D7", "U+00F7", "="}

null == <<>>
NaN == <<>>
NoOperation == "null"

RECURSIVE Pow10(_)
Pow10(n) == IF n = 0 THEN 1 ELSE 10 * Pow10(n - 1)

Scale == Pow10(FracDigits)

Abs(n) == IF n < 0 THEN -n ELSE n

(***************************************************************************)
(* Characters and strings.                                                 *)
(***************************************************************************)
DigitString == <<"0", "1", "2", "3", "4", "5", "6", "7", "8", "9">>
DigitChars == {DigitString[i] : i \in 1..10}
DigitChar(n) == DigitString[n + 1]
DigitOf(c) == CHOOSE n \in 0..9 : DigitString[n + 1] = c

\* String.prototype.includes for a one-character needle
Includes(s, c) == \E i \in 1..Len(s) : s[i] = c

\* String.prototype.slice(0, -1)
SliceDropLast(s) == SubSeq(s, 1, Len(s) - 1)

\* number of consecutive decimal digits of s from position i on
RECURSIVE DigitRun(_, _)
DigitRun(s, i) ==
    IF i <= Len(s) /\ s[i] \in DigitChars THEN 1 + DigitRun(s, i + 1) ELSE 0

\* value of the n decimal digits of s that start at position i
RECURSIVE DigitsValue(_, _, _)
DigitsValue(s, i, n) ==
    IF n = 0 THEN 0
    ELSE 10 * DigitsValue(s, i, n - 1) + DigitOf(s[i + n - 1])

(***************************************************************************)
(* parseFloat: optional sign, digits, optional "." and digits; parsing     *)
(* stops at the first character that does not continue the literal, and    *)
(* the result is NaN only when no digit was read.  (Leading white space,   *)
(* exponents and "Infinity" occur in no string of the explored window.)    *)
(* Decimal places beyond FracDigits are outside the window: see            *)
(* Representable.                                                          *)
(***************************************************************************)
parseFloat(s) ==
    LET signed == Len(s) >= 1 /\ s[1] \in {"-", "+"}
        sign == IF Len(s) >= 1 /\ s[1] = "-" THEN -1 ELSE 1
        start == IF signed THEN 2 ELSE 1
        ni == DigitRun(s, start)
        hasDot == start + ni <= Len(s) /\ s[start + ni] = "."
        nf == IF hasDot THEN DigitRun(s, start + ni + 1) ELSE 0
        kept == IF nf > FracDigits THEN FracDigits ELSE nf
        frac == DigitsValue(s, start + ni + 1, kept) * Pow10(FracDigits - kept)
    IN  IF ni + nf = 0 THEN NaN
        ELSE <<sign * (DigitsValue(s, start, ni) * Scale + frac)>>

\* the text denotes a number the fixed point represents exactly
Representable(s) ==
    LET signed == Len(s) >= 1 /\ s[1] \in {"-", "+"}
        start == IF signed THEN 2 ELSE 1
        ni == DigitRun(s, start)
        hasDot == start + ni <= Len(s) /\ s[start + ni] = "."
        nf == IF hasDot THEN DigitRun(s, start + ni + 1) ELSE 0
    IN  nf <= FracDigits

(***************************************************************************)
(* Number.prototype.toString for a number of the window: sign, integer     *)
(* part, and the decimal places without trailing zeros; -0 prints as "0".  *)
(***************************************************************************)
RECURSIVE NatToString(_)
NatToString(n) ==
    IF n < 10 THEN <<DigitChar(n)>>
    ELSE NatToString(n \div 10) \o <<DigitChar(n % 10)>>

\* the k-digit decimal fraction f, trailing zeros dropped
RECURSIVE FracToString(_, _)
FracToString(f, k) ==
    IF k = 0 \/ f = 0 THEN <<>>
    ELSE <<DigitChar(f \div Pow10(k - 1))>> \o FracToString(f % Pow10(k - 1), k - 1)

NumberToString(n) ==
    LET m == Abs(n)
        ip == m \div Scale
        fp == m % Scale
    IN  (IF n < 0 THEN <<"-">> ELSE <<>>)
        \o NatToString(ip)
        \o (IF fp = 0 THEN <<>> ELSE <<".">> \o FracToString(fp, FracDigits))

(***************************************************************************)
(* Constants and helpers of App.tsx.                                       *)
(***************************************************************************)
OPERATORS == {"+", "-", "*", "/"}

RESET_STATE ==
    [currentNumber |-> <<"0">>,
     previousNumber |-> <<>>,
     operation |-> NoOperation,
     lastOperand |-> <<>>,
     isNewNumber |-> TRUE,
     historyExpression |-> <<>>]

\* the text "0으로 나눌 수 없습니다"
DIVISION_BY_ZERO_MESSAGE ==
    <<"0", "U+C73C", "U+B85C", " ", "U+B098", "U+B20C", " ", "U+C218", " ",
      "U+C5C6", "U+C2B5", "U+B2C8", "U+B2E4">>

\* the error state without the flag that makes the next digit start afresh
DIVISION_BY_ZERO_STATE_Editable ==
    [RESET_STATE EXCEPT !.currentNumber = DIVISION_BY_ZERO_MESSAGE,
                        !.isNewNumber = FALSE]

DIVISION_BY_ZERO_STATE ==
    [RESET_STATE EXCEPT !.currentNumber = DIVISION_BY_ZERO_MESSAGE]

isOperator(value) == value \in OPERATORS

\* normalizeOperator that leaves the glyphs as they are
normalizeOperator_Identity(op) == op

normalizeOperator(op) ==
    IF op = "U+00D7" THEN "*"
    ELSE IF op = "U+00F7" THEN "/"
    ELSE op

toDisplayOperator(op) ==
    IF op = "*" THEN "U+00D7"
    ELSE IF op = "/" THEN "U+00F7"
    ELSE op

toNumberSafe(value) ==
    LET n == parseFloat(value)
    IN  IF n = NaN THEN null ELSE n

\* JavaScript truthiness of a string / of the nullable operator
Truthy(s) == s # <<>>
HasOperation(op) == op # NoOperation

\* compute without the test for a zero divisor
compute_NoZeroTest(a, op, b) ==
    CASE op = "+" -> <<a + b>>
      [] op = "-" -> <<a - b>>
      [] op = "*" -> <<(a * b) \div Scale>>
      [] op = "/" -> IF b = 0 THEN <<0>> ELSE <<(a * Scale) \div b>>
      [] OTHER -> null

(***************************************************************************)
(* compute: decimal.js arithmetic on two numbers; null on division by zero *)
(* and on an unknown operator.  Exact inside the window (InDomain).        *)
(***************************************************************************)
compute(a, op, b) ==
    CASE op = "+" -> <<a + b>>
      [] op = "-" -> <<a - b>>
      [] op = "*" -> <<(a * b) \div Scale>>
      [] op = "/" -> IF b = 0 THEN null ELSE <<(a * Scale) \div b>>
      [] OTHER -> null

\* The window: the exact result of a op b has at most FracDigits decimal
\* places and magnitude at most MaxValue (a division by zero is inside).
InDomain(a, op, b) ==
    LET lim == MaxValue * Scale
    IN  CASE op = "+" -> Abs(a + b) <= lim
          [] op = "-" -> Abs(a - b) <= lim
          [] op = "*" -> IF a = 0 \/ b = 0 THEN TRUE
                         ELSE IF Abs(a) > (lim * Scale) \div Abs(b) THEN FALSE
                         ELSE (a * b) % Scale = 0
          [] op = "/" -> IF b = 0 THEN TRUE
                         ELSE IF (Abs(a) * Scale) % Abs(b) # 0 THEN FALSE
                         ELSE (Abs(a) * Scale) \div Abs(b) <= lim
          [] OTHER -> TRUE

(***************************************************************************)
(* The numbers as the program has them.  A JavaScript number is an IEEE    *)
(* 754 binary64 value; parseFloat rounds the decimal literal to the        *)
(* nearest one, new Decimal(number) takes the digits of its shortest       *)
(* decimal notation, decimal.js computes on decimals with 20 significant   *)
(* digits, Decimal.toNumber rounds the decimal to the nearest binary64     *)
(* value and Number.prototype.toString prints the shortest decimal that    *)
(* rounds to the number.  The definitions below compute this chain digit   *)
(* by digit (compute64), beside the fixed point compute above that the     *)
(* state machine uses; ArithmeticSpec runs both on the same operands.      *)
(* Infinities, NaN results and subnormal numbers occur for no operand of   *)
(* the explored window and are not represented.                            *)
(*                                                                         *)
(* A natural number too large for one integer of the model is a sequence   *)
(* of limbs in base BigBase, least significant first, without a leading    *)
(* zero limb; zero is <<>>.                                                *)
(***************************************************************************)
BigBase == 32768
BigBits == 15

RECURSIVE Pow2(_)
Pow2(k) == IF k = 0 THEN 1 ELSE 2 * Pow2(k - 1)

RECURSIVE BigTrim(_)
BigTrim(n) ==
    IF n = <<>> THEN <<>>
    ELSE IF n[Len(n)] = 0 THEN BigTrim(SubSeq(n, 1, Len(n) - 1))
    ELSE n

RECURSIVE BigOfNat(_)
BigOfNat(k) ==
    IF k = 0 THEN <<>> ELSE <<k % BigBase>> \o BigOfNat(k \div BigBase)

\* n * c + carry, limb by limb (c and carry below BigBase)
RECURSIVE BigMulAddRaw(_, _, _)
BigMulAddRaw(n, c, carry) ==
    IF n = <<>> THEN BigOfNat(carry)
    ELSE LET t == n[1] * c + carry
         IN  <<t % BigBase>> \o BigMulAddRaw(Tail(n), c, t \div BigBase)

BigMulAdd(n, c, k) == BigTrim(BigMulAddRaw(n, c, k))

RECURSIVE BigAddRaw(_, _, _)
BigAddRaw(a, b, carry) ==
    IF a = <<>> /\ b = <<>>
    THEN IF carry = 0 THEN <<>> ELSE <<carry>>
    ELSE LET x == IF a = <<>> THEN 0 ELSE a[1]
             y == IF b = <<>> THEN 0 ELSE b[1]
             t == x + y + carry
         IN  <<t % BigBase>>
             \o BigAddRaw(IF a = <<>> THEN <<>> ELSE Tail(a),
                          IF b = <<>> THEN <<>> ELSE Tail(b), t \div BigBase)

BigAdd(a, b) == BigAddRaw(a, b, 0)

\* a - b for a >= b
RECURSIVE BigSubRaw(_, _, _)
BigSubRaw(a, b, borrow) ==
    IF a = <<>> THEN <<>>
    ELSE LET y == IF b = <<>> THEN 0 ELSE b[1]
             t == a[1] - y - borrow
         IN  <<IF t < 0 THEN t + BigBase ELSE t>>
             \o BigSubRaw(Tail(a), IF b = <<>> THEN <<>> ELSE Tail(b),
                          IF t < 0 THEN 1 ELSE 0)

BigSub(a, b) == BigTrim(BigSubRaw(a, b, 0))

RECURSIVE BigCmpFrom(_, _, _)
BigCmpFrom(a, b, i) ==
    IF i = 0 THEN 0
    ELSE IF a[i] > b[i] THEN 1
    ELSE IF a[i] < b[i] THEN -1
    ELSE BigCmpFrom(a, b, i - 1)

\* -1, 0 or 1 as a is below, equal to or above b
BigCmp(a, b) ==
    IF Len(a) > Len(b) THEN 1
    ELSE IF Len(a) < Len(b) THEN -1
    ELSE BigCmpFrom(a, b, Len(a))

\* quotient and remainder of n by d (d at most BigBase)
RECURSIVE BigDivModRaw(_, _)
BigDivModRaw(n, d) ==
    IF n = <<>> THEN [q |-> <<>>, r |-> 0]
    ELSE LET hi == BigDivModRaw(Tail(n), d)
             t == hi.r * BigBase + n[1]
         IN  [q |-> <<t \div d>> \o hi.q, r |-> t % d]

BigDivMod(n, d) ==
    LET dm == BigDivModRaw(n, d)
    IN  [q |-> BigTrim(dm.q), r |-> dm.r]

RECURSIVE BigMul(_, _)
BigMul(a, b) ==
    IF a = <<>> \/ b = <<>> THEN <<>>
    ELSE LET rest == BigMul(a, Tail(b))
         IN  BigAdd(BigMulAdd(a, b[1], 0),
                    IF rest = <<>> THEN <<>> ELSE <<0>> \o rest)

\* n * 2^k
BigShiftLeft(n, k) ==
    IF n = <<>> THEN <<>>
    ELSE [i \in 1..(k \div BigBits) |-> 0] \o BigMulAdd(n, Pow2(k % BigBits), 0)

\* n \div 2^k and the remainder
BigShiftRight(n, k) ==
    LET w == k \div BigBits
    IN  IF w >= Len(n) THEN [q |-> <<>>, rem |-> n]
        ELSE LET dm == BigDivMod(SubSeq(n, w + 1, Len(n)), Pow2(k % BigBits))
             IN  [q |-> dm.q, rem |-> BigTrim(SubSeq(n, 1, w) \o <<dm.r>>)]

RECURSIVE NatBitLength(_)
NatBitLength(k) == IF k = 0 THEN 0 ELSE 1 + NatBitLength(k \div 2)

BigBitLength(n) ==
    IF n = <<>> THEN 0 ELSE BigBits * (Len(n) - 1) + NatBitLength(n[Len(n)])

BigIsOdd(n) == n # <<>> /\ n[1] % 2 = 1

\* n * 10^k and n * 5^k
RECURSIVE BigMulPow10(_, _)
BigMulPow10(n, k) ==
    IF k = 0 THEN n
    ELSE IF k >= 4 THEN BigMulPow10(BigMulAdd(n, 10000, 0), k - 4)
    ELSE BigMulPow10(BigMulAdd(n, 10, 0), k - 1)

RECURSIVE BigMulPow5(_, _)
BigMulPow5(n, k) ==
    IF k = 0 THEN n
    ELSE IF k >= 6 THEN BigMulPow5(BigMulAdd(n, 15625, 0), k - 6)
    ELSE BigMulPow5(BigMulAdd(n, 5, 0), k - 1)

\* n \div 10^k, and whether the division left a remainder
RECURSIVE BigDivPow10(_, _, _)
BigDivPow10(n, k, sticky) ==
    IF k = 0 THEN [q |-> n, sticky |-> sticky]
    ELSE LET d == IF k >= 4 THEN 10000 ELSE 10
             dm == BigDivMod(n, d)
         IN  BigDivPow10(dm.q, IF k >= 4 THEN k - 4 ELSE k - 1,
                         sticky \/ dm.r # 0)

\* the decimal digits of n, most significant first (none for zero), and the
\* number with the given decimal digits
RECURSIVE BigDigits(_)
BigDigits(n) ==
    IF n = <<>> THEN <<>>
    ELSE LET dm == BigDivMod(n, 10) IN BigDigits(dm.q) \o <<dm.r>>

RECURSIVE BigOfDigitsFrom(_, _, _)
BigOfDigitsFrom(ds, i, acc) ==
    IF i > Len(ds) THEN acc
    ELSE BigOfDigitsFrom(ds, i + 1, BigMulAdd(acc, 10, ds[i]))

BigOfDigits(ds) == BigOfDigitsFrom(ds, 1, <<>>)

(***************************************************************************)
(* binary64.  A number is [sign, m, e], standing for sign * m * 2^e, with  *)
(* m of exactly 53 bits (m = <<>> and e = 0 for zero), so that equal       *)
(* numbers are equal records.                                              *)
(***************************************************************************)
Zero64(sign) == [sign |-> sign, m |-> <<>>, e |-> 0]

\* round to nearest, ties to even: the binary64 value of sign * n * 2^e,
\* where sticky says that the exact value lies above n * 2^e by less than
\* 2^e (n then has more than 54 bits)
RoundBinary64(sign, n, e, sticky) ==
    LET len == BigBitLength(n)
    IN  IF n = <<>> THEN Zero64(sign)
        ELSE IF len <= 53
        THEN [sign |-> sign, m |-> BigShiftLeft(n, 53 - len), e |-> e - (53 - len)]
        ELSE LET s == len - 53
                 sh == BigShiftRight(n, s)
                 half == BigShiftLeft(<<1>>, s - 1)
                 c == BigCmp(sh.rem, half)
                 up == c > 0 \/ (c = 0 /\ (sticky \/ BigIsOdd(sh.q)))
                 m1 == IF up THEN BigAdd(sh.q, <<1>>) ELSE sh.q
             IN  IF BigBitLength(m1) = 54
                 THEN [sign |-> sign, m |-> BigShiftRight(m1, 1).q, e |-> e + s + 1]
                 ELSE [sign |-> sign, m |-> m1, e |-> e + s]

\* the binary64 value nearest to the decimal sign * c * 10^x
DecimalToBinary64(sign, c, x) ==
    IF c = <<>> THEN Zero64(sign)
    ELSE IF x >= 0 THEN RoundBinary64(sign, BigMulPow10(c, x), 0, FALSE)
    ELSE LET s == 64 + 4 * (-x)
             d == BigDivPow10(BigShiftLeft(c, s), -x, FALSE)
         IN  RoundBinary64(sign, d.q, -s, d.sticky)

\* parseFloat (675) on binary64: the literal read as parseFloat reads it,
\* with all its decimal places, rounded to the nearest number
parseFloat64(s) ==
    LET signed == Len(s) >= 1 /\ s[1] \in {"-", "+"}
        sign == IF Len(s) >= 1 /\ s[1] = "-" THEN -1 ELSE 1
        start == IF signed THEN 2 ELSE 1
        ni == DigitRun(s, start)
        hasDot == start + ni <= Len(s) /\ s[start + ni] = "."
        nf == IF hasDot THEN DigitRun(s, start + ni + 1) ELSE 0
        ds == [j \in 1..ni |-> DigitOf(s[start + j - 1])]
              \o [j \in 1..nf |-> DigitOf(s[start + ni + j])]
    IN  IF ni + nf = 0 THEN NaN
        ELSE <<DecimalToBinary64(sign, BigOfDigits(ds), -nf)>>

\* the shortest decimal c * 10^e that rounds to the number x (x not zero),
\* found among the decimals of k, k + 1, ... significant digits next to the
\* exact value of x, whose digits are ds with the decimal point after the
\* first n of them; of two candidates of the same length the one nearer to
\* x, and the even one when they are equally near
RECURSIVE ShortestFrom(_, _, _, _)
ShortestFrom(x, ds, n, k) ==
    IF k >= Len(ds) THEN [c |-> BigOfDigits(ds), e |-> n - Len(ds)]
    ELSE LET lo == BigOfDigits(SubSeq(ds, 1, k))
             hi == BigAdd(lo, <<1>>)
             okLo == DecimalToBinary64(x.sign, lo, n - k) = x
             okHi == DecimalToBinary64(x.sign, hi, n - k) = x
             next == ds[k + 1]
             more == \E i \in (k + 2)..Len(ds) : ds[i] # 0
             loNearer == next < 5 \/ (next = 5 /\ ~more /\ ~BigIsOdd(lo))
         IN  IF okLo /\ okHi
             THEN [c |-> IF loNearer THEN lo ELSE hi, e |-> n - k]
             ELSE IF okLo THEN [c |-> lo, e |-> n - k]
             ELSE IF okHi THEN [c |-> hi, e |-> n - k]
             ELSE ShortestFrom(x, ds, n, k + 1)

Shortest(x) ==
    LET exact == IF x.e >= 0 THEN BigShiftLeft(x.m, x.e)
                 ELSE BigMulPow5(x.m, -x.e)
        ds == BigDigits(exact)
        n == IF x.e >= 0 THEN Len(ds) ELSE Len(ds) + x.e
    IN  ShortestFrom(x, ds, n, 1)

\* ds without its trailing zeros
RECURSIVE DropTrailingZeros(_)
DropTrailingZeros(ds) ==
    IF ds # <<>> /\ ds[Len(ds)] = 0
    THEN DropTrailingZeros(SubSeq(ds, 1, Len(ds) - 1))
    ELSE ds

DigitText(ds) == [i \in 1..Len(ds) |-> DigitChar(ds[i])]
Zeros(k) == [i \in 1..k |-> "0"]

\* Number.prototype.toString (737, 784, 836, 887) on binary64: the digits
\* of the shortest decimal, in decimal notation from 1e-7 up to 1e21 and in
\* exponent notation beyond
NumberToString64(x) ==
    IF x.m = <<>> THEN <<"0">>
    ELSE LET sh == Shortest(x)
             all == BigDigits(sh.c)
             ds == DropTrailingZeros(all)
             k == Len(ds)
             \* the value is 0.ds * 10^n
             n == sh.e + Len(all)
             body ==
                 IF k <= n /\ n <= 21 THEN DigitText(ds) \o Zeros(n - k)
                 ELSE IF 0 < n /\ n <= 21
                 THEN DigitText(SubSeq(ds, 1, n)) \o <<".">>
                      \o DigitText(SubSeq(ds, n + 1, k))
                 ELSE IF -6 < n /\ n <= 0
                 THEN <<"0", ".">> \o Zeros(-n) \o DigitText(ds)
                 ELSE DigitText(SubSeq(ds, 1, 1))
                      \o (IF k = 1 THEN <<>>
                          ELSE <<".">> \o DigitText(SubSeq(ds, 2, k)))
                      \o <<"e", IF n - 1 < 0 THEN "-" ELSE "+">>
                      \o NatToString(Abs(n - 1))
         IN  (IF x.sign < 0 THEN <<"-">> ELSE <<>>) \o body

(***************************************************************************)
(* decimal.js.  A Decimal is [sign, c, e], standing for sign * c * 10^e.   *)
(* Results are rounded to DecimalPrecision significant digits, half up     *)
(* (the defaults of the library: precision 20, rounding ROUND_HALF_UP).    *)
(***************************************************************************)
DecimalPrecision == 20

\* new Decimal(number): the digits of the number's shortest notation
Decimal(x) ==
    IF x.m = <<>> THEN [sign |-> x.sign, c |-> <<>>, e |-> 0]
    ELSE LET sh == Shortest(x) IN [sign |-> x.sign, c |-> sh.c, e |-> sh.e]

\* c * 10^e rounded half up to DecimalPrecision significant digits
DecimalRound(sign, c, e) ==
    LET nd == Len(BigDigits(c))
    IN  IF nd <= DecimalPrecision THEN [sign |-> sign, c |-> c, e |-> e]
        ELSE LET drop == nd - DecimalPrecision
                 \* one digit more than kept, to see the digit dropped first
                 q == BigDivPow10(c, drop - 1, FALSE).q
                 dm == BigDivMod(q, 10)
             IN  [sign |-> sign,
                  c |-> IF dm.r >= 5 THEN BigAdd(dm.q, <<1>>) ELSE dm.q,
                  e |-> e + drop]

\* x + y
Decimal_plus(x, y) ==
    LET e == IF x.e < y.e THEN x.e ELSE y.e
        cx == BigMulPow10(x.c, x.e - e)
        cy == BigMulPow10(y.c, y.e - e)
        cmp == BigCmp(cx, cy)
    IN  IF x.sign = y.sign THEN DecimalRound(x.sign, BigAdd(cx, cy), e)
        ELSE IF cmp = 0 THEN [sign |-> 1, c |-> <<>>, e |-> 0]
        ELSE IF cmp > 0 THEN DecimalRound(x.sign, BigSub(cx, cy), e)
        ELSE DecimalRound(y.sign, BigSub(cy, cx), e)

Decimal_minus(x, y) == Decimal_plus(x, [y EXCEPT !.sign = -y.sign])

Decimal_times(x, y) ==
    DecimalRound(x.sign * y.sign, BigMul(x.c, y.c), x.e + y.e)

\* long division: quotient q and remainder r of the number with the first
\* i of the digits ds by b, digit by digit
RECURSIVE LongDivide(_, _, _)
LongDivide(ds, i, b) ==
    IF i = 0 THEN [q |-> <<>>, r |-> <<>>]
    ELSE LET prev == LongDivide(ds, i - 1, b)
             r1 == BigMulAdd(prev.r, 10, ds[i])
             d == CHOOSE j \in 0..9 :
                      /\ BigCmp(BigMulAdd(b, j, 0), r1) <= 0
                      /\ BigCmp(BigMulAdd(b, j + 1, 0), r1) > 0
         IN  IF prev.r = <<>> /\ ds[i] = 0
             THEN [q |-> BigMulAdd(prev.q, 10, 0), r |-> <<>>]
             ELSE [q |-> BigMulAdd(prev.q, 10, d),
                   r |-> BigSub(r1, BigMulAdd(b, d, 0))]

\* x / y for y not zero: the quotient carried to more than DecimalPrecision
\* digits, then rounded
Decimal_dividedBy(x, y) ==
    IF x.c = <<>> THEN [sign |-> x.sign * y.sign, c |-> <<>>, e |-> 0]
    ELSE LET shift == DecimalPrecision + 2 + Len(BigDigits(y.c))
             ds == BigDigits(BigMulPow10(x.c, shift))
             d == LongDivide(ds, Len(ds), y.c)
         IN  DecimalRound(x.sign * y.sign, d.q, x.e - y.e - shift)

\* Decimal.toNumber: the number nearest to the decimal
Decimal_toNumber(d) == DecimalToBinary64(d.sign, d.c, d.e)

\* the arithmetic of the JavaScript operators + - * / on binary64: the exact
\* result rounded to the nearest number
Binary64_add(x, y) ==
    IF x.m = <<>> THEN y
    ELSE IF y.m = <<>> THEN x
    ELSE LET e == IF x.e < y.e THEN x.e ELSE y.e
             mx == BigShiftLeft(x.m, x.e - e)
             my == BigShiftLeft(y.m, y.e - e)
             cmp == BigCmp(mx, my)
         IN  IF x.sign = y.sign THEN RoundBinary64(x.sign, BigAdd(mx, my), e, FALSE)
             ELSE IF cmp = 0 THEN Zero64(1)
             ELSE IF cmp > 0 THEN RoundBinary64(x.sign, BigSub(mx, my), e, FALSE)
             ELSE RoundBinary64(y.sign, BigSub(my, mx), e, FALSE)

Binary64_sub(x, y) == Binary64_add(x, [y EXCEPT !.sign = -y.sign])

Binary64_mul(x, y) ==
    RoundBinary64(x.sign * y.sign, BigMul(x.m, y.m), x.e + y.e, FALSE)

\* for y not zero
Binary64_div(x, y) ==
    IF x.m = <<>> THEN Zero64(x.sign * y.sign)
    ELSE LET ds == BigDigits(BigShiftLeft(x.m, 64))
             d == LongDivide(ds, Len(ds), y.m)
         IN  RoundBinary64(x.sign * y.sign, d.q, x.e - y.e - 64, d.r # <<>>)

\* compute with the arithmetic of the JavaScript operators in place of
\* decimal.js
compute64_NativeArithmetic(a, op, b) ==
    CASE op = "+" -> <<Binary64_add(a, b)>>
      [] op = "-" -> <<Binary64_sub(a, b)>>
      [] op = "*" -> <<Binary64_mul(a, b)>>
      [] op = "/" -> IF b.m = <<>> THEN null ELSE <<Binary64_div(a, b)>>
      [] OTHER -> null

\* compute (683-697) on binary64 numbers
compute64(a, op, b) ==
    CASE op = "+" -> <<Decimal_toNumber(Decimal_plus(Decimal(a), Decimal(b)))>>
      [] op = "-" -> <<Decimal_toNumber(Decimal_minus(Decimal(a), Decimal(b)))>>
      [] op = "*" -> <<Decimal_toNumber(Decimal_times(Decimal(a), Decimal(b)))>>
      [] op = "/" -> IF b.m = <<>> THEN null
                     ELSE <<Decimal_toNumber(Decimal_dividedBy(Decimal(a), Decimal(b)))>>
      [] OTHER -> null

(***************************************************************************)
(* reduceOperator (App.tsx 712-900).                                       *)
(***************************************************************************)
\* `${left} ${toDisplayOperator(op)} ${right}`
Expression(left, op, right) ==
    left \o <<" ", toDisplayOperator(op), " ">> \o right

HistoryPayload(left, op, right, resultStr) ==
    [expression |-> Expression(left, op, right),
     result |-> resultStr,
     operation |-> op,
     operand |-> right]

NoHistory(next) == [next |-> next, history |-> null]

\* repeated '=' that takes the displayed result as the right operand
RepeatEquals_OperandFromDisplay(prev) ==
    LET a == toNumberSafe(prev.previousNumber)
        b == toNumberSafe(prev.currentNumber)
    IN  IF a = null \/ b = null THEN NoHistory(RESET_STATE)
        ELSE LET result == compute(a[1], prev.operation, b[1])
             IN  IF result = null THEN NoHistory(DIVISION_BY_ZERO_STATE)
                 ELSE LET resultStr == NumberToString(result[1])
                          left == prev.previousNumber
                          op == prev.operation
                          right == prev.currentNumber
                      IN  [next |-> [prev EXCEPT
                                !.currentNumber = resultStr,
                                !.previousNumber = resultStr,
                                !.isNewNumber = TRUE,
                                !.historyExpression =
                                    Expression(left, op, right) \o <<" ", "=">>],
                           history |-> <<HistoryPayload(left, op, right, resultStr)>>]

\* 1) repeated '=' (723-757)
RepeatEquals(prev) ==
    LET a == toNumberSafe(prev.previousNumber)
        b == toNumberSafe(prev.lastOperand)
    IN  IF a = null \/ b = null THEN NoHistory(RESET_STATE)
        ELSE LET result == compute(a[1], prev.operation, b[1])
             IN  IF result = null THEN NoHistory(DIVISION_BY_ZERO_STATE)
                 ELSE LET resultStr == NumberToString(result[1])
                          left == prev.previousNumber
                          op == prev.operation
                          right == prev.lastOperand
                      IN  [next |-> [prev EXCEPT
                                !.currentNumber = resultStr,
                                !.previousNumber = resultStr,
                                !.isNewNumber = TRUE,
                                !.historyExpression =
                                    Expression(left, op, right) \o <<" ", "=">>],
                           history |-> <<HistoryPayload(left, op, right, resultStr)>>]

\* operator replacement that also forgets the remembered operand
ReplaceOperator_ClearsOperand(prev, operator) ==
    NoHistory([prev EXCEPT
        !.operation = operator,
        !.lastOperand = <<>>,
        !.historyExpression =
            prev.previousNumber \o <<" ", toDisplayOperator(operator)>>])

\* 2) awaiting an operand, operator: the pending operator is replaced (761-771)
ReplaceOperator(prev, operator) ==
    NoHistory([prev EXCEPT
        !.operation = operator,
        !.historyExpression =
            prev.previousNumber \o <<" ", toDisplayOperator(operator)>>])

\* awaiting-operand '=' that does not remember the operand it used
AwaitingEquals_KeepsLastOperand(prev) ==
    LET operand == IF Truthy(prev.lastOperand) THEN prev.lastOperand
                   ELSE prev.previousNumber
        a == toNumberSafe(prev.previousNumber)
        b == toNumberSafe(operand)
    IN  IF a = null \/ b = null THEN NoHistory(RESET_STATE)
        ELSE LET result == compute(a[1], prev.operation, b[1])
             IN  IF result = null THEN NoHistory(DIVISION_BY_ZERO_STATE)
                 ELSE LET resultStr == NumberToString(result[1])
                          left == prev.previousNumber
                          op == prev.operation
                          right == operand
                      IN  [next |-> [currentNumber |-> resultStr,
                                     previousNumber |-> resultStr,
                                     operation |-> prev.operation,
                                     lastOperand |-> prev.lastOperand,
                                     isNewNumber |-> TRUE,
                                     historyExpression |->
                                         Expression(left, op, right) \o <<" ", "=">>],
                           history |-> <<HistoryPayload(left, op, right, resultStr)>>]

\* awaiting-operand '=' that evaluates but returns no history payload
AwaitingEquals_NoEvent(prev) ==
    LET operand == IF Truthy(prev.lastOperand) THEN prev.lastOperand
                   ELSE prev.previousNumber
        a == toNumberSafe(prev.previousNumber)
        b == toNumberSafe(operand)
    IN  IF a = null \/ b = null THEN NoHistory(RESET_STATE)
        ELSE LET result == compute(a[1], prev.operation, b[1])
             IN  IF result = null THEN NoHistory(DIVISION_BY_ZERO_STATE)
                 ELSE LET resultStr == NumberToString(result[1])
                      IN  NoHistory(
                            [currentNumber |-> resultStr,
                             previousNumber |-> resultStr,
                             operation |-> prev.operation,
                             lastOperand |-> operand,
                             isNewNumber |-> TRUE,
                             historyExpression |->
                                 Expression(prev.previousNumber, prev.operation,
                                            operand) \o <<" ", "=">>])

\* 2) awaiting an operand, '=': 7 + = is 7 + 7 = (773-805)
AwaitingEquals(prev) ==
    LET operand == IF Truthy(prev.lastOperand) THEN prev.lastOperand
                   ELSE prev.previousNumber
        a == toNumberSafe(prev.previousNumber)
        b == toNumberSafe(operand)
    IN  IF a = null \/ b = null THEN NoHistory(RESET_STATE)
        ELSE LET result == compute(a[1], prev.operation, b[1])
             IN  IF result = null THEN NoHistory(DIVISION_BY_ZERO_STATE)
                 ELSE LET resultStr == NumberToString(result[1])
                          left == prev.previousNumber
                          op == prev.operation
                          right == operand
                      IN  [next |-> [currentNumber |-> resultStr,
                                     previousNumber |-> resultStr,
                                     operation |-> prev.operation,
                                     lastOperand |-> operand,
                                     isNewNumber |-> TRUE,
                                     historyExpression |->
                                         Expression(left, op, right) \o <<" ", "=">>],
                           history |-> <<HistoryPayload(left, op, right, resultStr)>>]

\* a new chain that keeps the operand of the finished calculation
NewChain_KeepsLastOperand(prev, operator) ==
    NoHistory([currentNumber |-> <<>>,
               previousNumber |-> prev.currentNumber,
               operation |-> operator,
               lastOperand |-> prev.lastOperand,
               isNewNumber |-> TRUE,
               historyExpression |->
                   prev.currentNumber \o <<" ", toDisplayOperator(operator)>>])

\* 3) an operator right after a result starts a new chain (813-826)
NewChain(prev, operator) ==
    NoHistory([currentNumber |-> <<>>,
               previousNumber |-> prev.currentNumber,
               operation |-> operator,
               lastOperand |-> <<>>,
               isNewNumber |-> TRUE,
               historyExpression |->
                   prev.currentNumber \o <<" ", toDisplayOperator(operator)>>])

\* chained '=' that remembers the result, not the operand, for the repeat
Chained_RemembersResult(prev, operator, current) ==
    LET a == toNumberSafe(prev.previousNumber)
    IN  IF a = null THEN NoHistory(RESET_STATE)
        ELSE LET result == compute(a[1], prev.operation, current)
             IN  IF result = null THEN NoHistory(DIVISION_BY_ZERO_STATE)
                 ELSE LET resultStr == NumberToString(result[1])
                      IN  IF operator = "="
                          THEN LET left == prev.previousNumber
                                   op == prev.operation
                                   right == prev.currentNumber
                               IN  [next |-> [currentNumber |-> resultStr,
                                              previousNumber |-> resultStr,
                                              operation |-> prev.operation,
                                              lastOperand |-> resultStr,
                                              isNewNumber |-> TRUE,
                                              historyExpression |->
                                                  Expression(left, op, right)
                                                  \o <<" ", "=">>],
                                    history |->
                                        <<HistoryPayload(left, op, right, resultStr)>>]
                          ELSE IF isOperator(operator)
                          THEN NoHistory(
                                 [currentNumber |-> <<>>,
                                  previousNumber |-> resultStr,
                                  operation |-> operator,
                                  lastOperand |-> prev.currentNumber,
                                  isNewNumber |-> TRUE,
                                  historyExpression |->
                                      resultStr \o <<" ", toDisplayOperator(operator)>>])
                          ELSE NoHistory(prev)

\* chained operator that drops the pending operation instead of evaluating it
Chained_SkipsPending(prev, operator, current) ==
    LET a == toNumberSafe(prev.previousNumber)
    IN  IF a = null THEN NoHistory(RESET_STATE)
        ELSE LET result == compute(a[1], prev.operation, current)
             IN  IF result = null THEN NoHistory(DIVISION_BY_ZERO_STATE)
                 ELSE LET resultStr == NumberToString(result[1])
                      IN  IF operator = "="
                          THEN LET left == prev.previousNumber
                                   op == prev.operation
                                   right == prev.currentNumber
                               IN  [next |-> [currentNumber |-> resultStr,
                                              previousNumber |-> resultStr,
                                              operation |-> prev.operation,
                                              lastOperand |-> prev.currentNumber,
                                              isNewNumber |-> TRUE,
                                              historyExpression |->
                                                  Expression(left, op, right)
                                                  \o <<" ", "=">>],
                                    history |->
                                        <<HistoryPayload(left, op, right, resultStr)>>]
                          ELSE IF isOperator(operator)
                          THEN NoHistory(
                                 [currentNumber |-> <<>>,
                                  previousNumber |-> prev.currentNumber,
                                  operation |-> operator,
                                  lastOperand |-> prev.currentNumber,
                                  isNewNumber |-> TRUE,
                                  historyExpression |->
                                      prev.currentNumber \o <<" ", toDisplayOperator(operator)>>])
                          ELSE NoHistory(prev)

\* 4) chained calculation (829-878)
Chained(prev, operator, current) ==
    LET a == toNumberSafe(prev.previousNumber)
    IN  IF a = null THEN NoHistory(RESET_STATE)
        ELSE LET result == compute(a[1], prev.operation, current)
             IN  IF result = null THEN NoHistory(DIVISION_BY_ZERO_STATE)
                 ELSE LET resultStr == NumberToString(result[1])
                      IN  IF operator = "="
                          THEN LET left == prev.previousNumber
                                   op == prev.operation
                                   right == prev.currentNumber
                               IN  [next |-> [currentNumber |-> resultStr,
                                              previousNumber |-> resultStr,
                                              operation |-> prev.operation,
                                              lastOperand |-> prev.currentNumber,
                                              isNewNumber |-> TRUE,
                                              historyExpression |->
                                                  Expression(left, op, right)
                                                  \o <<" ", "=">>],
                                    history |->
                                        <<HistoryPayload(left, op, right, resultStr)>>]
                          ELSE IF isOperator(operator)
                          THEN NoHistory(
                                 [currentNumber |-> <<>>,
                                  previousNumber |-> resultStr,
                                  operation |-> operator,
                                  lastOperand |-> prev.currentNumber,
                                  isNewNumber |-> TRUE,
                                  historyExpression |->
                                      resultStr \o <<" ", toDisplayOperator(operator)>>])
                          ELSE NoHistory(prev)

\* first operator that leaves lastOperand empty
FirstOperator_NoLastOperand(prev, operator, current) ==
    IF operator = "="
    THEN NoHistory([prev EXCEPT !.isNewNumber = TRUE])
    ELSE IF ~isOperator(operator)
    THEN NoHistory(prev)
    ELSE LET currentStr == NumberToString(current)
         IN  NoHistory([currentNumber |-> <<>>,
                        previousNumber |-> currentStr,
                        operation |-> operator,
                        lastOperand |-> <<>>,
                        isNewNumber |-> TRUE,
                        historyExpression |->
                            currentStr \o <<" ", toDisplayOperator(operator)>>])

\* '=' with nothing pending that returns the state as it is
FirstOperator_EqualsKeepsFlag(prev, operator, current) ==
    IF operator = "="
    THEN NoHistory(prev)
    ELSE IF ~isOperator(operator)
    THEN NoHistory(prev)
    ELSE LET currentStr == NumberToString(current)
         IN  NoHistory([currentNumber |-> <<>>,
                        previousNumber |-> currentStr,
                        operation |-> operator,
                        lastOperand |-> currentStr,
                        isNewNumber |-> TRUE,
                        historyExpression |->
                            currentStr \o <<" ", toDisplayOperator(operator)>>])

\* 5) first operator of a calculation (880-899)
FirstOperator(prev, operator, current) ==
    IF operator = "="
    THEN NoHistory([prev EXCEPT !.isNewNumber = TRUE])
    ELSE IF ~isOperator(operator)
    THEN NoHistory(prev)
    ELSE LET currentStr == NumberToString(current)
         IN  NoHistory([currentNumber |-> <<>>,
                        previousNumber |-> currentStr,
                        operation |-> operator,
                        lastOperand |-> currentStr,
                        isNewNumber |-> TRUE,
                        historyExpression |->
                            currentStr \o <<" ", toDisplayOperator(operator)>>])

reduceOperator(prev, operator) ==
    LET currentParsed == toNumberSafe(prev.currentNumber)
        pending == Truthy(prev.previousNumber) /\ HasOperation(prev.operation)
        \* currentParsed ?? 0
        current == IF currentParsed = null THEN 0 ELSE currentParsed[1]
    IN
    \* a display that does not parse resets
    IF prev.currentNumber # <<>> /\ currentParsed = null
    THEN NoHistory(RESET_STATE)
    ELSE IF operator = "=" /\ prev.isNewNumber /\ pending /\ Truthy(prev.lastOperand)
    THEN RepeatEquals(prev)
    ELSE IF prev.currentNumber = <<>>
    THEN IF isOperator(operator) /\ pending THEN ReplaceOperator(prev, operator)
         ELSE IF operator = "=" /\ pending THEN AwaitingEquals(prev)
         ELSE NoHistory(prev)
    ELSE IF prev.isNewNumber /\ isOperator(operator) /\ pending
    THEN NewChain(prev, operator)
    ELSE IF pending
    THEN Chained(prev, operator, current)
    ELSE FirstOperator(prev, operator, current)

(***************************************************************************)
(* The state updaters of the handlers (App.tsx 926-973, 1022-1033).        *)
(***************************************************************************)
\* Clear that leaves the expression line
handleClear_KeepsExpression(prev) ==
    [RESET_STATE EXCEPT !.historyExpression = prev.historyExpression]

\* Clear that leaves the remembered operand
handleClear_KeepsLastOperand(prev) ==
    [RESET_STATE EXCEPT !.lastOperand = prev.lastOperand]

handleClear(prev) == RESET_STATE

\* digit entry that starts afresh on a displayed result: the pending
\* operation and the expression line are dropped
handleNumber_StartsAfresh(prev, value) ==
    IF prev.isNewNumber /\ prev.currentNumber # <<>>
    THEN [RESET_STATE EXCEPT !.currentNumber = <<value>>, !.isNewNumber = FALSE]
    ELSE IF prev.isNewNumber \/ prev.currentNumber = <<"0">>
    THEN [prev EXCEPT !.currentNumber = <<value>>, !.isNewNumber = FALSE]
    ELSE [prev EXCEPT !.currentNumber = prev.currentNumber \o <<value>>]

\* digit entry that replaces only a new number and appends to a lone "0"
handleNumber_AppendsToZero(prev, value) ==
    IF prev.isNewNumber
    THEN [prev EXCEPT !.currentNumber = <<value>>, !.isNewNumber = FALSE]
    ELSE [prev EXCEPT !.currentNumber = prev.currentNumber \o <<value>>]

\* digit entry that replaces only a lone "0"
handleNumber_IgnoresNewNumber(prev, value) ==
    IF prev.currentNumber = <<"0">>
    THEN [prev EXCEPT !.currentNumber = <<value>>, !.isNewNumber = FALSE]
    ELSE [prev EXCEPT !.currentNumber = prev.currentNumber \o <<value>>,
                      !.isNewNumber = FALSE]

handleNumber(prev, value) ==
    IF prev.isNewNumber \/ prev.currentNumber = <<"0">>
    THEN [prev EXCEPT !.currentNumber = <<value>>, !.isNewNumber = FALSE]
    ELSE [prev EXCEPT !.currentNumber = prev.currentNumber \o <<value>>]

\* decimal point entry without the test for a point already present
handleDot_AlwaysAppends(prev) ==
    IF prev.isNewNumber
    THEN [prev EXCEPT !.currentNumber = <<"0", ".">>, !.isNewNumber = FALSE]
    ELSE [prev EXCEPT !.currentNumber = prev.currentNumber \o <<".">>,
                      !.isNewNumber = FALSE]

handleDot(prev) ==
    IF prev.isNewNumber
    THEN [prev EXCEPT !.currentNumber = <<"0", ".">>, !.isNewNumber = FALSE]
    ELSE IF Includes(prev.currentNumber, ".") THEN prev
    ELSE [prev EXCEPT !.currentNumber = prev.currentNumber \o <<".">>,
                      !.isNewNumber = FALSE]

\* Backspace without the isNewNumber test: a displayed result is edited
handleBackspace_EditsResult(prev) ==
    IF Len(prev.currentNumber) <= 1
    THEN [prev EXCEPT !.currentNumber = <<"0">>, !.isNewNumber = TRUE]
    ELSE [prev EXCEPT !.currentNumber = SliceDropLast(prev.currentNumber)]

\* Backspace that resets the buffer only when it is already empty
handleBackspace_LeavesEmpty(prev) ==
    IF prev.isNewNumber
    THEN IF Includes(prev.historyExpression, "=")
         THEN [prev EXCEPT !.historyExpression = <<>>]
         ELSE prev
    ELSE IF Len(prev.currentNumber) < 1
    THEN [prev EXCEPT !.currentNumber = <<"0">>, !.isNewNumber = TRUE]
    ELSE [prev EXCEPT !.currentNumber = SliceDropLast(prev.currentNumber)]

\* Backspace that, removing the expression of a result, also opens the
\* result for editing
handleBackspace_OpensResult(prev) ==
    IF prev.isNewNumber
    THEN IF Includes(prev.historyExpression, "=")
         THEN [prev EXCEPT !.historyExpression = <<>>, !.isNewNumber = FALSE]
         ELSE prev
    ELSE IF Len(prev.currentNumber) <= 1
    THEN [prev EXCEPT !.currentNumber = <<"0">>, !.isNewNumber = TRUE]
    ELSE [prev EXCEPT !.currentNumber = SliceDropLast(prev.currentNumber)]

handleBackspace(prev) ==
    IF prev.isNewNumber
    THEN IF Includes(prev.historyExpression, "=")
         THEN [prev EXCEPT !.historyExpression = <<>>]
         ELSE prev
    ELSE IF Len(prev.currentNumber) <= 1
    THEN [prev EXCEPT !.currentNumber = <<"0">>, !.isNewNumber = TRUE]
    ELSE [prev EXCEPT !.currentNumber = SliceDropLast(prev.currentNumber)]

\* recall that takes the entry's result as the operand to repeat
onSelectHistory_OperandFromResult(item) ==
    [RESET_STATE EXCEPT
        !.currentNumber = item.result,
        !.previousNumber = item.result,
        !.operation = item.operation,
        !.lastOperand = item.result,
        !.isNewNumber = TRUE,
        !.historyExpression = item.expression \o <<" ", "=">>]

\* recall that loads the result without the entry's operation
onSelectHistory_NoOperation(item) ==
    [RESET_STATE EXCEPT
        !.currentNumber = item.result,
        !.previousNumber = item.result,
        !.lastOperand = item.operand,
        !.isNewNumber = TRUE,
        !.historyExpression = item.expression \o <<" ", "=">>]

onSelectHistory(item) ==
    [RESET_STATE EXCEPT
        !.currentNumber = item.result,
        !.previousNumber = item.result,
        !.operation = item.operation,
        !.lastOperand = item.operand,
        !.isNewNumber = TRUE,
        !.historyExpression = item.expression \o <<" ", "=">>]

(***************************************************************************)
(* The history effect (App.tsx 989-1010).  It runs after a render in which *)
(* state.currentNumber or state.historyExpression changed, takes the       *)
(* pending payload and prepends it to the ledger unless its key is the key *)
(* committed last.  The id of an entry is an opaque unique token, modelled *)
(* by the entry's ordinal; createdAt is read by nothing and is left out.   *)
(***************************************************************************)
HistoryKey(payload) == payload.expression \o <<"|">> \o payload.result

HistoryItem(payload, h) ==
    [id |-> Len(h) + 1,
     expression |-> payload.expression,
     result |-> payload.result,
     operation |-> payload.operation,
     operand |-> payload.operand]

\* the effect callback without the key test
HistoryEffect_NoDedup(pending, lastKey) ==
    IF pending = null
    THEN [pending |-> pending, lastKey |-> lastKey, update |-> <<>>]
    ELSE LET payload == pending[1]
             key == HistoryKey(payload)
         IN  [pending |-> null, lastKey |-> key, update |-> <<payload>>]

\* the effect callback (989-1010): what it leaves in the two refs, and the
\* payload of the update it hands to setHistory (<<>> when it hands none)
HistoryEffect(pending, lastKey) ==
    IF pending = null
    THEN [pending |-> pending, lastKey |-> lastKey, update |-> <<>>]
    ELSE LET payload == pending[1]
             key == HistoryKey(payload)
         IN  IF lastKey = key
             THEN [pending |-> null, lastKey |-> lastKey, update |-> <<>>]
             ELSE [pending |-> null, lastKey |-> key, update |-> <<payload>>]

\* an updater that puts the new entry at the end of the ledger
setHistory_Appends(payload, h) == h \o <<HistoryItem(payload, h)>>

\* the updater handed to setHistory (1000-1009), applied to the ledger h
setHistory(payload, h) == <<HistoryItem(payload, h)>> \o h

\* the queued updates applied in the order they were queued
RECURSIVE ApplyUpdates(_, _)
ApplyUpdates(updates, h) ==
    IF updates = <<>> THEN h
    ELSE ApplyUpdates(Tail(updates), setHistory(Head(updates), h))

\* the commit step as a whole: the effect callback, then the render of the
\* update it queued
CommitEffect(pending, lastKey, h) ==
    LET e == HistoryEffect(pending, lastKey)
    IN  [pending |-> e.pending, lastKey |-> e.lastKey,
         history |-> ApplyUpdates(e.update, h)]

\* the dependency list of the effect: [state.currentNumber, state.historyExpression]
DepsChanged(old, new) ==
    \/ new.currentNumber # old.currentNumber
    \/ new.historyExpression # old.historyExpression

\* the operands of the evaluation that reduceOperator(prev, operator)
\* performs, <<>> when it performs none
Evaluation(prev, operator) ==
    LET pending == Truthy(prev.previousNumber) /\ HasOperation(prev.operation)
    IN  IF prev.currentNumber # <<>> /\ toNumberSafe(prev.currentNumber) = null
        THEN <<>>
        ELSE IF operator = "=" /\ prev.isNewNumber /\ pending
                /\ Truthy(prev.lastOperand)
        THEN <<prev.previousNumber, prev.lastOperand>>
        ELSE IF prev.currentNumber = <<>>
        THEN IF operator = "=" /\ pending
             THEN <<prev.previousNumber,
                    IF Truthy(prev.lastOperand) THEN prev.lastOperand
                    ELSE prev.previousNumber>>
             ELSE <<>>
        ELSE IF prev.isNewNumber /\ isOperator(operator) /\ pending
        THEN <<>>
        ELSE IF pending
        THEN <<prev.previousNumber, prev.currentNumber>>
        ELSE <<>>

\* the command is an Equals whose evaluation, in state prev, gives a number:
\* both operands parse and it is not a division by zero
EvaluatesToNumber(prev, command) ==
    IF command = <<>> THEN FALSE
    ELSE IF command[1] # "Operator" THEN FALSE
    ELSE IF normalizeOperator(command[2]) # "=" THEN FALSE
    ELSE LET e == Evaluation(prev, "=")
         IN  IF e = <<>> THEN FALSE
             ELSE IF toNumberSafe(e[1]) = null \/ toNumberSafe(e[2]) = null THEN FALSE
             ELSE compute(toNumberSafe(e[1])[1], prev.operation,
                          toNumberSafe(e[2])[1]) # null

Program ==
    [state |-> state,
     history |-> history,
     pendingHistoryRef |-> pendingHistoryRef,
     lastHistoryKeyRef |-> lastHistoryKeyRef,
     effectPending |-> effectPending,
     historyUpdates |-> historyUpdates]

\* A command: the handler calls setState and React renders, calling the
\* updater, which gives next and writes pendingHistoryRef when the command
\* is an operator command (write is <<v>> for the value v written, <<>>
\* when the updater leaves the ref alone).  An effect callback still
\* scheduled from the render before is run first by React, before that
\* render: it reads the ref as the command found it.  The render schedules
\* the effect callback when its dependencies changed; the ledger is not
\* touched.
Render(command, next, write) ==
    LET e == IF effectPending # <<>>
             THEN HistoryEffect(pendingHistoryRef, lastHistoryKeyRef)
             ELSE [pending |-> pendingHistoryRef, lastKey |-> lastHistoryKeyRef,
                   update |-> <<>>]
    IN  /\ lastCommand' = command
        /\ before' = Program
        /\ state' = next
        /\ pendingHistoryRef' = IF write = <<>> THEN e.pending ELSE write[1]
        /\ lastHistoryKeyRef' = e.lastKey
        /\ historyUpdates' = historyUpdates \o e.update
        /\ effectPending' = IF DepsChanged(state, next) THEN <<command>> ELSE <<>>
        /\ UNCHANGED history
        /\ steps' = steps + 1
        /\ evaluations' = IF EvaluatesToNumber(state, command)
                          THEN evaluations + 1 ELSE evaluations

\* React calls the scheduled effect callback: it reads and clears
\* pendingHistoryRef, stores the key and queues the setHistory update
Effect ==
    /\ effectPending # <<>>
    /\ lastCommand' = <<"Effect">>
    /\ before' = Program
    /\ LET e == HistoryEffect(pendingHistoryRef, lastHistoryKeyRef)
       IN  /\ pendingHistoryRef' = e.pending
           /\ lastHistoryKeyRef' = e.lastKey
           /\ historyUpdates' = historyUpdates \o e.update
    /\ effectPending' = <<>>
    /\ UNCHANGED <<state, history, steps, evaluations>>

\* React renders for the queued setHistory updates: the ledger changes; the
\* dependencies of the effect are as they were, so no effect is scheduled
RenderHistory ==
    /\ historyUpdates # <<>>
    /\ lastCommand' = <<"RenderHistory">>
    /\ before' = Program
    /\ history' = ApplyUpdates(historyUpdates, history)
    /\ historyUpdates' = <<>>
    /\ UNCHANGED <<state, pendingHistoryRef, lastHistoryKeyRef, effectPending,
                   steps, evaluations>>

(***************************************************************************)
(* The window of the exploration.                                          *)
(***************************************************************************)
\* a typed operand text of the window
TypedInWindow(s) ==
    /\ Representable(s)
    /\ parseFloat(s) # NaN
    /\ Abs(parseFloat(s)[1]) <= MaxValue * Scale

OperatorInWindow(prev, operator) ==
    LET e == Evaluation(prev, operator)
    IN  IF e = <<>> THEN TRUE
        ELSE IF toNumberSafe(e[1]) = null \/ toNumberSafe(e[2]) = null THEN TRUE
        ELSE InDomain(toNumberSafe(e[1])[1], prev.operation, toNumberSafe(e[2])[1])

(***************************************************************************)
(* Actions: one per command.                                               *)
(***************************************************************************)
\* the values of the operator buttons and the operator keys
OperatorTokens == {"+", "-", "*", "/", "U+00D7", "U+00F7", "="}

Init ==
    /\ state = RESET_STATE
    /\ history = <<>>
    /\ pendingHistoryRef = null
    /\ lastHistoryKeyRef = <<>>
    /\ effectPending = <<>>
    /\ historyUpdates = <<>>
    /\ steps = 0
    /\ evaluations = 0
    /\ lastCommand = <<>>
    /\ before = Program

Clear ==
    /\ steps < MaxSteps
    /\ Render(<<"Clear">>, handleClear(state), <<>>)

Number(value) ==
    /\ steps < MaxSteps
    /\ TypedInWindow(handleNumber(state, value).currentNumber)
    /\ Render(<<"Number", value>>, handleNumber(state, value), <<>>)

Dot ==
    /\ steps < MaxSteps
    /\ TypedInWindow(handleDot(state).currentNumber)
    /\ Render(<<"Dot">>, handleDot(state), <<>>)

Backspace ==
    /\ steps < MaxSteps
    /\ Render(<<"Backspace">>, handleBackspace(state), <<>>)

\* handleOperator (976-984)
Operator(operator) ==
    LET normalized == normalizeOperator(operator)
    IN  /\ steps < MaxSteps
        /\ OperatorInWindow(state, normalized)
        /\ LET r == reduceOperator(state, normalized)
           IN  Render(<<"Operator", operator>>, r.next,
                      <<IF normalized = "=" THEN r.history ELSE null>>)

SelectHistory(i) ==
    /\ steps < MaxSteps
    /\ Render(<<"SelectHistory", i>>, onSelectHistory(history[i]), <<>>)

Next ==
    \/ Clear
    \/ \E value \in Digits : Number(value)
    \/ Dot
    \/ Backspace
    \/ \E operator \in OperatorTokens : Operator(operator)
    \/ \E i \in 1..Len(history) : SelectHistory(i)
    \/ Effect
    \/ RenderHistory

Spec == Init /\ [][Next]_vars

(***************************************************************************)
(* Longer sessions over fewer keys, for what happens to a payload that     *)
(* stays pending: the same handlers, sessions of at most MaxLedgerSteps    *)
(* commands, the digit keys LedgerDigits and the operator keys             *)
(* LedgerOperatorTokens.                                                   *)
(***************************************************************************)
LedgerClear ==
    /\ steps < MaxLedgerSteps
    /\ Render(<<"Clear">>, handleClear(state), <<>>)

LedgerNumber(value) ==
    /\ steps < MaxLedgerSteps
    /\ TypedInWindow(handleNumber(state, value).currentNumber)
    /\ Render(<<"Number", value>>, handleNumber(state, value), <<>>)

LedgerDot ==
    /\ steps < MaxLedgerSteps
    /\ TypedInWindow(handleDot(state).currentNumber)
    /\ Render(<<"Dot">>, handleDot(state), <<>>)

LedgerBackspace ==
    /\ steps < MaxLedgerSteps
    /\ Render(<<"Backspace">>, handleBackspace(state), <<>>)

LedgerOperator(operator) ==
    LET normalized == normalizeOperator(operator)
    IN  /\ steps < MaxLedgerSteps
        /\ OperatorInWindow(state, normalized)
        /\ LET r == reduceOperator(state, normalized)
           IN  Render(<<"Operator", operator>>, r.next,
                      <<IF normalized = "=" THEN r.history ELSE null>>)

LedgerSelectHistory(i) ==
    /\ steps < MaxLedgerSteps
    /\ Render(<<"SelectHistory", i>>, onSelectHistory(history[i]), <<>>)

LedgerNext ==
    \/ LedgerClear
    \/ \E value \in LedgerDigits : LedgerNumber(value)
    \/ LedgerDot
    \/ LedgerBackspace
    \/ \E operator \in LedgerOperatorTokens : LedgerOperator(operator)
    \/ \E i \in 1..Len(history) : LedgerSelectHistory(i)
    \/ Effect
    \/ RenderHistory

LedgerSpec == Init /\ [][LedgerNext]_vars

(***************************************************************************)
(* Raw input: the keydown listener and the buttons (App.tsx 1013-1019,     *)
(* 1036-1080, 1170-1186).  A key is the string of KeyboardEvent.key, a     *)
(* button is named by its value.  onKeyDown and onClick give the handler   *)
(* call made for a token, <<>> when none is made.                          *)
(***************************************************************************)
onKeyDown(key) ==
    IF key \in DigitChars THEN <<"Number", key>>
    ELSE IF key = "." THEN <<"Dot">>
    ELSE IF isOperator(key) THEN <<"Operator", key>>
    ELSE IF key = "Enter" \/ key = "=" THEN <<"Operator", "=">>
    ELSE IF key = "Escape" \/ key = "c" \/ key = "C" THEN <<"Clear">>
    ELSE IF key = "Backspace" THEN <<"Backspace">>
    ELSE <<>>

\* the onClick handler of the button with this value
onClick(value) ==
    IF value = "C" THEN <<"Clear">>
    ELSE IF value = "." THEN <<"Dot">>
    ELSE IF value \in DigitChars THEN <<"Number", value>>
    ELSE <<"Operator", value>>

\* the handler call is made; the command recorded is the call followed by
\* the source and the token it came from
Dispatch(call, source, token) ==
    IF call = <<>>
    THEN \* no handler is called: nothing is set and nothing renders
         /\ lastCommand' = <<"None", source, token>>
         /\ before' = Program
         /\ steps' = steps + 1
         /\ UNCHANGED <<state, history, pendingHistoryRef, lastHistoryKeyRef,
                        effectPending, historyUpdates, evaluations>>
    ELSE IF call[1] = "Number"
    THEN /\ TypedInWindow(handleNumber(state, call[2]).currentNumber)
         /\ Render(call \o <<source, token>>, handleNumber(state, call[2]), <<>>)
    ELSE IF call[1] = "Dot"
    THEN /\ TypedInWindow(handleDot(state).currentNumber)
         /\ Render(call \o <<source, token>>, handleDot(state), <<>>)
    ELSE IF call[1] = "Clear"
    THEN Render(call \o <<source, token>>, handleClear(state), <<>>)
    ELSE IF call[1] = "Backspace"
    THEN Render(call \o <<source, token>>, handleBackspace(state), <<>>)
    ELSE LET normalized == normalizeOperator(call[2])
             r == reduceOperator(state, normalized)
         IN  /\ OperatorInWindow(state, normalized)
             /\ Render(call \o <<source, token>>, r.next,
                       <<IF normalized = "=" THEN r.history ELSE null>>)

KeyDown(key) ==
    /\ steps < MaxKeySteps
    /\ Dispatch(onKeyDown(key), "key", key)

ButtonClick(value) ==
    /\ steps < MaxKeySteps
    /\ Dispatch(onClick(value), "button", value)

KeyNext ==
    \/ \E key \in Keys : KeyDown(key)
    \/ \E value \in Buttons : ButtonClick(value)
    \/ Effect
    \/ RenderHistory

KeySpec == Init /\ [][KeyNext]_vars

(***************************************************************************)
(* The earlier, history-less calculator (src/unnamed/part_000): the same   *)
(* state without historyExpression, and handleOperator with the reducer    *)
(* and compute written inline.  Its definitions carry the prefix Earlier_. *)
(* A result of its compute is <<"number", n>>, <<"NaN">>, <<"null">> or    *)
(* <<"undefined">>; its parseFloat results are those of parseFloat above.  *)
(***************************************************************************)
Earlier_RESET_STATE ==
    [currentNumber |-> <<"0">>,
     previousNumber |-> <<>>,
     operation |-> NoOperation,
     lastOperand |-> <<>>,
     isNewNumber |-> TRUE]

Earlier_DIVISION_BY_ZERO_STATE ==
    [Earlier_RESET_STATE EXCEPT !.currentNumber = DIVISION_BY_ZERO_MESSAGE]

Earlier_handleClear(prev) == Earlier_RESET_STATE

Earlier_handleNumber(prev, value) ==
    IF prev.isNewNumber
    THEN [prev EXCEPT !.currentNumber = <<value>>, !.isNewNumber = FALSE]
    ELSE IF prev.currentNumber = <<"0">>
    THEN [prev EXCEPT !.currentNumber = <<value>>, !.isNewNumber = FALSE]
    ELSE [prev EXCEPT !.currentNumber = prev.currentNumber \o <<value>>]

Earlier_handleDot(prev) ==
    IF prev.isNewNumber
    THEN [prev EXCEPT !.currentNumber = <<"0", ".">>, !.isNewNumber = FALSE]
    ELSE IF Includes(prev.currentNumber, ".") THEN prev
    ELSE [prev EXCEPT !.currentNumber = prev.currentNumber \o <<".">>,
                      !.isNewNumber = FALSE]

Earlier_handleBackspace(prev) ==
    IF prev.isNewNumber THEN prev
    ELSE IF Len(prev.currentNumber) <= 1
    THEN [prev EXCEPT !.currentNumber = <<"0">>, !.isNewNumber = TRUE]
    ELSE [prev EXCEPT !.currentNumber = SliceDropLast(prev.currentNumber)]

\* the inline compute (97-111); a and b are results of parseFloat, and an
\* operation of decimal.js on NaN gives NaN
Earlier_compute(a, op, b) ==
    CASE op = "+" -> IF a = NaN \/ b = NaN THEN <<"NaN">>
                     ELSE <<"number", a[1] + b[1]>>
      [] op = "-" -> IF a = NaN \/ b = NaN THEN <<"NaN">>
                     ELSE <<"number", a[1] - b[1]>>
      [] op = "*" -> IF a = NaN \/ b = NaN THEN <<"NaN">>
                     ELSE <<"number", (a[1] * b[1]) \div Scale>>
      [] op = "/" -> IF b # NaN /\ b[1] = 0 THEN <<"null">>
                     ELSE IF a = NaN \/ b = NaN THEN <<"NaN">>
                     ELSE <<"number", (a[1] * Scale) \div b[1]>>
      [] OTHER -> <<"undefined">>

\* result.toString()
Earlier_toString(result) ==
    IF result[1] = "NaN" THEN <<"N", "a", "N">> ELSE NumberToString(result[2])

\* 1) repeated '=' (115-136)
Earlier_RepeatEquals(prev) ==
    LET a == parseFloat(prev.previousNumber)
        b == parseFloat(prev.lastOperand)
        result == Earlier_compute(a, prev.operation, b)
    IN  IF result[1] = "null" THEN Earlier_DIVISION_BY_ZERO_STATE
        ELSE IF result[1] = "undefined" THEN prev
        ELSE [prev EXCEPT !.currentNumber = Earlier_toString(result),
                          !.previousNumber = Earlier_toString(result),
                          !.isNewNumber = TRUE]

\* 2) currentNumber is empty (139-167)
Earlier_Awaiting(prev, operator) ==
    IF operator \in OPERATORS /\ prev.previousNumber # <<>>
       /\ HasOperation(prev.operation)
    THEN [prev EXCEPT !.operation = operator]
    ELSE IF operator = "=" /\ prev.previousNumber # <<>>
            /\ HasOperation(prev.operation)
    THEN LET a == parseFloat(prev.previousNumber)
             operandStr == IF prev.lastOperand # <<>> THEN prev.lastOperand
                           ELSE prev.previousNumber
             b == parseFloat(operandStr)
             result == Earlier_compute(a, prev.operation, b)
         IN  IF result[1] = "null" THEN Earlier_DIVISION_BY_ZERO_STATE
             ELSE IF result[1] = "undefined" THEN prev
             ELSE [currentNumber |-> Earlier_toString(result),
                   previousNumber |-> Earlier_toString(result),
                   operation |-> prev.operation,
                   lastOperand |-> operandStr,
                   isNewNumber |-> TRUE]
    ELSE prev

\* 3-1) chained operation (191-222)
Earlier_Chained(prev, operator, current) ==
    LET a == parseFloat(prev.previousNumber)
        b == current
        result == Earlier_compute(a, prev.operation, b)
    IN  IF result[1] = "null" THEN Earlier_DIVISION_BY_ZERO_STATE
        ELSE IF result[1] = "undefined" THEN prev
        ELSE IF operator = "="
        THEN [currentNumber |-> Earlier_toString(result),
              previousNumber |-> Earlier_toString(result),
              operation |-> prev.operation,
              lastOperand |-> prev.currentNumber,
              isNewNumber |-> TRUE]
        ELSE IF operator \in OPERATORS
        THEN [currentNumber |-> <<>>,
              previousNumber |-> Earlier_toString(result),
              operation |-> operator,
              lastOperand |-> prev.currentNumber,
              isNewNumber |-> TRUE]
        ELSE prev

\* 3-2) first operator (225-239)
Earlier_FirstOperator(prev, operator, current) ==
    IF operator = "="
    THEN [prev EXCEPT !.isNewNumber = TRUE]
    ELSE IF operator \notin OPERATORS
    THEN prev
    ELSE [currentNumber |-> <<>>,
          previousNumber |-> NumberToString(current[1]),
          operation |-> operator,
          lastOperand |-> NumberToString(current[1]),
          isNewNumber |-> TRUE]

\* handleOperator (87-241): the updater passed to setState
Earlier_handleOperator(prev, operator) ==
    LET current == parseFloat(IF prev.currentNumber = <<>> THEN <<"0">>
                              ELSE prev.currentNumber)
    IN  IF prev.currentNumber # <<>> /\ current = NaN
        THEN Earlier_RESET_STATE
        ELSE IF operator = "=" /\ prev.isNewNumber /\ prev.previousNumber # <<>>
                /\ HasOperation(prev.operation) /\ prev.lastOperand # <<>>
        THEN Earlier_RepeatEquals(prev)
        ELSE IF prev.currentNumber = <<>>
        THEN Earlier_Awaiting(prev, operator)
        ELSE IF prev.isNewNumber /\ operator \in OPERATORS
                /\ prev.currentNumber # <<>> /\ prev.previousNumber # <<>>
                /\ HasOperation(prev.operation)
        THEN [currentNumber |-> <<>>,
              previousNumber |-> prev.currentNumber,
              operation |-> operator,
              lastOperand |-> <<>>,
              isNewNumber |-> TRUE]
        ELSE IF prev.previousNumber # <<>> /\ HasOperation(prev.operation)
        THEN Earlier_Chained(prev, operator, current)
        ELSE Earlier_FirstOperator(prev, operator, current)

\* the state the earlier calculator gives for a command
Earlier_Handle(prev, command) ==
    CASE command[1] = "Clear" -> Earlier_handleClear(prev)
      [] command[1] = "Number" -> Earlier_handleNumber(prev, command[2])
      [] command[1] = "Dot" -> Earlier_handleDot(prev)
      [] command[1] = "Backspace" -> Earlier_handleBackspace(prev)
      [] command[1] = "Operator" -> Earlier_handleOperator(prev, command[2])

(***************************************************************************)
(* Sessions of the commands both calculators have: Digit, Dot, the four    *)
(* operators, Equals, Clear and Backspace (no recall), at most             *)
(* MaxVariantSteps of them, handled by the history-enabled calculator.     *)
(***************************************************************************)
VariantClear ==
    /\ steps < MaxVariantSteps
    /\ Render(<<"Clear">>, handleClear(state), <<>>)

VariantNumber(value) ==
    /\ steps < MaxVariantSteps
    /\ TypedInWindow(handleNumber(state, value).currentNumber)
    /\ Render(<<"Number", value>>, handleNumber(state, value), <<>>)

VariantDot ==
    /\ steps < MaxVariantSteps
    /\ TypedInWindow(handleDot(state).currentNumber)
    /\ Render(<<"Dot">>, handleDot(state), <<>>)

VariantBackspace ==
    /\ steps < MaxVariantSteps
    /\ Render(<<"Backspace">>, handleBackspace(state), <<>>)

VariantOperator(operator) ==
    LET normalized == normalizeOperator(operator)
    IN  /\ steps < MaxVariantSteps
        /\ OperatorInWindow(state, normalized)
        /\ LET r == reduceOperator(state, normalized)
           IN  Render(<<"Operator", operator>>, r.next,
                      <<IF normalized = "=" THEN r.history ELSE null>>)

VariantNext ==
    \/ VariantClear
    \/ \E value \in VariantDigits : VariantNumber(value)
    \/ VariantDot
    \/ VariantBackspace
    \/ \E operator \in VariantOperators : VariantOperator(operator)
    \/ Effect
    \/ RenderHistory

VariantSpec == Init /\ [][VariantNext]_vars

(***************************************************************************)
(* Arithmetic on operands typed in: the first operand l is typed, an       *)
(* operator is chosen, the second operand r is typed, and Equals is        *)
(* handled.  The operands are the decimals of at most MaxTenths tenths.    *)
(***************************************************************************)
ArithmeticOperands == {NumberToString(k * (Scale \div 10)) : k \in 0..MaxTenths}
ArithmeticOperators == {"+", "-", "*", "/"}

\* the state after the characters of text from position i on are typed in
\* state s: handleDot for the decimal point, handleNumber for a digit
RECURSIVE Typed(_, _, _)
Typed(s, text, i) ==
    IF i > Len(text) THEN s
    ELSE Typed(IF text[i] = "." THEN handleDot(s) ELSE handleNumber(s, text[i]),
               text, i + 1)

\* the program after l, op and r are typed from the initial state, the
\* effect callback of the last digit still scheduled
ArithmeticInit ==
    \E l \in ArithmeticOperands, r \in ArithmeticOperands,
       op \in ArithmeticOperators :
        LET awaiting == reduceOperator(Typed(RESET_STATE, l, 1), op).next
            command == <<"Number", r[Len(r)]>>
        IN  /\ state = Typed(awaiting, r, 1)
            /\ history = <<>>
            /\ pendingHistoryRef = null
            /\ lastHistoryKeyRef = <<>>
            /\ effectPending = <<command>>
            /\ historyUpdates = <<>>
            /\ steps = Len(l) + 1 + Len(r)
            /\ evaluations = 0
            /\ lastCommand = command
            /\ before = [state |-> Typed(awaiting, SliceDropLast(r), 1),
                         history |-> <<>>,
                         pendingHistoryRef |-> null,
                         lastHistoryKeyRef |-> <<>>,
                         effectPending |-> <<>>,
                         historyUpdates |-> <<>>]

\* handleOperator("=") on the operands typed
ArithmeticEquals ==
    /\ ~state.isNewNumber
    /\ OperatorInWindow(state, "=")
    /\ LET r == reduceOperator(state, "=")
       IN  Render(<<"Operator", "=">>, r.next, <<r.history>>)

ArithmeticNext ==
    \/ ArithmeticEquals
    \/ Effect
    \/ RenderHistory

ArithmeticSpec == ArithmeticInit /\ [][ArithmeticNext]_vars

(***************************************************************************)
(* Vocabulary of the claims.                                               *)
(***************************************************************************)
\* the state before the command handled last
Prev == before.state

\* an operation is pending: previousNumber non-empty and operation set
Pending(s) == s.previousNumber # <<>> /\ s.operation # NoOperation

\* a non-empty numeric text: digits with an optional sign and decimal point
IsNumberText(text) ==
    /\ text # <<>>
    /\ \A i \in 1..Len(text) : text[i] \in DigitChars \cup {".", "-"}
    /\ \E i \in 1..Len(text) : text[i] \in DigitChars

\* the number a numeric text denotes
Value(text) == toNumberSafe(text)[1]

\* the text of compute(left, op, right) for operand texts left and right
ComputeText(left, op, right) ==
    NumberToString(compute(Value(left), op, Value(right))[1])

\* left op right is a division by zero
IsDivisionByZero(op, right) == op = "/" /\ Value(right) = 0

IsCommand(kind) == lastCommand # <<>> /\ lastCommand[1] = kind

\* the callback run last is a command (not the effect callback or the
\* render of the ledger)
IsInput == lastCommand # <<>> /\ lastCommand[1] \notin {"Effect", "RenderHistory"}

\* the command c is an Equals
IsEqualsCommand(c) ==
    /\ c # <<>>
    /\ c[1] = "Operator"
    /\ normalizeOperator(c[2]) = "="

\* the step taken last ran the effect callback: on its own, or inside a
\* command that found it still scheduled
RanEffect ==
    \/ lastCommand = <<"Effect">>
    \/ IsInput /\ before.effectPending # <<>>

\* the commit step has run: no effect callback is scheduled and no ledger
\* update is queued
Settled == effectPending = <<>> /\ historyUpdates = <<>>

\* the command handled last is Equals / is an operator command
IsEquals ==
    /\ IsCommand("Operator")
    /\ normalizeOperator(lastCommand[2]) = "="

IsOperatorCommand ==
    /\ IsCommand("Operator")
    /\ isOperator(normalizeOperator(lastCommand[2]))

\* the operator of the operator command handled last
NewOp == normalizeOperator(lastCommand[2])

\* the command handled last emitted no history event and the ledger is as before
NoHistoryEvent ==
    /\ reduceOperator(Prev, NewOp).history = null
    /\ pendingHistoryRef = null
    /\ history = before.history

InErrorState(s) == s.currentNumber = DIVISION_BY_ZERO_MESSAGE

(***************************************************************************)
(* C1  Equals evaluation.  An Equals command handled in a state with a     *)
(* pending operation, a non-empty numeric currentNumber and isNewNumber    *)
(* false, whose evaluation is not a division by zero, sets currentNumber   *)
(* and previousNumber to the text of                                       *)
(* compute(previousNumber, operation, currentNumber), keeps operation,     *)
(* sets lastOperand to the text of the operand used and isNewNumber to     *)
(* true.                                                                   *)
(***************************************************************************)
C1_Case ==
    /\ IsEquals
    /\ Pending(Prev)
    /\ IsNumberText(Prev.currentNumber)
    /\ ~Prev.isNewNumber
    /\ ~IsDivisionByZero(Prev.operation, Prev.currentNumber)

C1_EqualsEvaluation ==
    C1_Case =>
        LET r == ComputeText(Prev.previousNumber, Prev.operation, Prev.currentNumber)
        IN  /\ state.currentNumber = r
            /\ state.previousNumber = r
            /\ state.operation = Prev.operation
            /\ state.lastOperand = Prev.currentNumber
            /\ state.isNewNumber

\* 1 + 2 = shows 3
C1_Witness ==
    /\ C1_Case
    /\ Prev.previousNumber = <<"1">>
    /\ Prev.operation = "+"
    /\ Prev.currentNumber = <<"2">>
    /\ state.currentNumber = <<"3">>
    /\ state.lastOperand = <<"2">>

(***************************************************************************)
(* C2  Repeat-equals law.  After an Equals that evaluated a pending        *)
(* operation to a result r, an Equals handled next sets currentNumber and  *)
(* previousNumber to the text of compute(r, OP, b), b being the operand    *)
(* of the evaluation, and leaves operation and lastOperand unchanged; the  *)
(* state it produces is again one this law applies to, so n further        *)
(* Equals fold x -> compute(x, OP, b) n times over r.                      *)
(***************************************************************************)
\* the command handled last is an Equals that evaluated to a number
C2_AfterEquals ==
    /\ IsEquals
    /\ Pending(Prev)
    /\ ~InErrorState(state)

C2_RepeatEquals ==
    (C2_AfterEquals /\ OperatorInWindow(state, "=")
                    /\ ~IsDivisionByZero(state.operation, state.lastOperand)) =>
        LET again == reduceOperator(state, "=").next
            r == ComputeText(state.currentNumber, state.operation, state.lastOperand)
        IN  /\ state.lastOperand # <<>>
            /\ again.currentNumber = r
            /\ again.previousNumber = r
            /\ again.operation = state.operation
            /\ again.lastOperand = state.lastOperand
            /\ again.isNewNumber

\* 1 + 2 = = : the second Equals turns 3 into 5
C2_Witness ==
    /\ C2_AfterEquals
    /\ steps = 5
    /\ Prev.currentNumber = <<"3">>
    /\ Prev.historyExpression = <<"1", " ", "+", " ", "2", " ", "=">>
    /\ state.currentNumber = <<"5">>
    /\ state.lastOperand = <<"2">>
    /\ state.operation = "+"

(***************************************************************************)
(* C3  Left-to-right chaining.  An operator command newOp handled while an *)
(* operation is pending and an operand has been entered (currentNumber     *)
(* non-empty, isNewNumber false) evaluates the pending operation first:    *)
(* unless it is a division by zero, previousNumber becomes the text of     *)
(* compute(previousNumber, operation, currentNumber), operation becomes    *)
(* newOp, lastOperand the operand used, currentNumber empty and            *)
(* isNewNumber true.                                                       *)
(***************************************************************************)
C3_Case ==
    /\ IsOperatorCommand
    /\ Pending(Prev)
    /\ IsNumberText(Prev.currentNumber)
    /\ ~Prev.isNewNumber
    /\ ~IsDivisionByZero(Prev.operation, Prev.currentNumber)

C3_Chaining ==
    C3_Case =>
        /\ state.previousNumber =
               ComputeText(Prev.previousNumber, Prev.operation, Prev.currentNumber)
        /\ state.operation = NewOp
        /\ state.lastOperand = Prev.currentNumber
        /\ state.currentNumber = <<>>
        /\ state.isNewNumber

\* 1 + 2 * : the sum 3 is formed before the multiplication is entered
C3_Witness ==
    /\ C3_Case
    /\ Prev.previousNumber = <<"1">>
    /\ Prev.operation = "+"
    /\ Prev.currentNumber = <<"2">>
    /\ NewOp = "*"
    /\ state.previousNumber = <<"3">>
    /\ state.operation = "*"

(***************************************************************************)
(* C4  New chain after a result.  An operator command newOp handled while  *)
(* isNewNumber is true, currentNumber is non-empty and an operation is     *)
(* pending evaluates nothing: previousNumber becomes the old               *)
(* currentNumber, operation newOp, lastOperand and currentNumber empty,    *)
(* isNewNumber true, and no history event is emitted.                      *)
(***************************************************************************)
C4_Case ==
    /\ IsOperatorCommand
    /\ Prev.isNewNumber
    /\ Prev.currentNumber # <<>>
    /\ Pending(Prev)

C4_NewChain ==
    C4_Case =>
        /\ state.previousNumber = Prev.currentNumber
        /\ state.operation = NewOp
        /\ state.lastOperand = <<>>
        /\ state.currentNumber = <<>>
        /\ state.isNewNumber
        /\ NoHistoryEvent

\* 2 - 1 = + : the result 1 starts a new chain
C4_Witness ==
    /\ C4_Case
    /\ Prev.historyExpression = <<"2", " ", "-", " ", "1", " ", "=">>
    /\ Prev.currentNumber = <<"1">>
    /\ Prev.lastOperand = <<"1">>
    /\ NewOp = "+"
    /\ state.previousNumber = <<"1">>
    /\ state.lastOperand = <<>>
    /\ Len(history) = 1

(***************************************************************************)
(* C5  Division by zero.  An Operator or Equals command whose evaluation   *)
(* (chained calculation, awaiting-operand Equals or repeat-equals) has the *)
(* pending operation / and a right operand that is numerically zero leads  *)
(* to the Error state, whatever the left operand, and emits no history     *)
(* event; the Error state is entered in no other way.                      *)
(***************************************************************************)
\* the command handled last evaluated a division by zero
C5_DividedByZero ==
    /\ IsCommand("Operator")
    /\ Evaluation(Prev, NewOp) # <<>>
    /\ IsNumberText(Evaluation(Prev, NewOp)[2])
    /\ IsDivisionByZero(Prev.operation, Evaluation(Prev, NewOp)[2])

C5_DivisionByZero ==
    /\ C5_DividedByZero => (state = DIVISION_BY_ZERO_STATE /\ NoHistoryEvent)
    /\ (InErrorState(state) /\ ~InErrorState(Prev)) => C5_DividedByZero

\* 0 / 0 = : a zero left operand
C5_Witness ==
    /\ C5_DividedByZero
    /\ NewOp = "="
    /\ Prev.previousNumber = <<"0">>
    /\ Prev.currentNumber = <<"0">>
    /\ state = DIVISION_BY_ZERO_STATE

(***************************************************************************)
(* C6  Error-state invariant.  Whenever currentNumber is the division by   *)
(* zero message, previousNumber is empty, operation is null, lastOperand   *)
(* is empty and isNewNumber is true.                                       *)
(***************************************************************************)
C6_ErrorStateInvariant ==
    InErrorState(state) =>
        /\ state.previousNumber = <<>>
        /\ state.operation = NoOperation
        /\ state.lastOperand = <<>>
        /\ state.isNewNumber

\* the Error state, still displayed after a further command
C6_Witness ==
    /\ InErrorState(state)
    /\ InErrorState(Prev)
    /\ IsCommand("Backspace")

(***************************************************************************)
(* C7  Error recovery.  A Digit, Dot or Clear command handled in the Error *)
(* state gives the state the same command gives from the initial state:    *)
(* Digit d shows d, Dot shows "0.", Clear gives the initial state; no      *)
(* operation is pending and lastOperand is empty.                          *)
(***************************************************************************)
C7_ErrorRecovery ==
    InErrorState(Prev) =>
        /\ IsCommand("Number") =>
               state = [RESET_STATE EXCEPT !.currentNumber = <<lastCommand[2]>>,
                                           !.isNewNumber = FALSE]
        /\ IsCommand("Dot") =>
               state = [RESET_STATE EXCEPT !.currentNumber = <<"0", ".">>,
                                           !.isNewNumber = FALSE]
        /\ IsCommand("Clear") => state = RESET_STATE

\* 1 / 0 = 2 shows 2
C7_Witness ==
    /\ InErrorState(Prev)
    /\ lastCommand = <<"Number", "2">>
    /\ state.currentNumber = <<"2">>
    /\ ~Pending(state)

(***************************************************************************)
(* C8  Unparseable-operand reset.  An Operator or Equals command handled   *)
(* while currentNumber is non-empty and is not a number (the error message *)
(* is displayed) gives the initial state, whichever operator or Equals it  *)
(* is, and emits no history event.                                         *)
(***************************************************************************)
C8_UnparseableReset ==
    (IsCommand("Operator") /\ Prev.currentNumber # <<>>
                           /\ ~IsNumberText(Prev.currentNumber)) =>
        (state = RESET_STATE /\ NoHistoryEvent)

(***************************************************************************)
(* C9  Clear.  A Clear command gives the initial state from every state,   *)
(* and a second Clear changes nothing.                                     *)
(***************************************************************************)
C9_Clear ==
    IsCommand("Clear") =>
        /\ state = RESET_STATE
        /\ handleClear(state) = state

\* Clear after a result that is in the ledger
C9_Witness ==
    /\ IsCommand("Clear")
    /\ Pending(Prev)
    /\ Prev.isNewNumber
    /\ Prev.lastOperand # <<>>
    /\ Prev.historyExpression # <<>>
    /\ history # <<>>
    /\ state = RESET_STATE

(***************************************************************************)
(* C10  In every reachable state operation is non-null if and only if      *)
(* previousNumber is non-empty.                                            *)
(***************************************************************************)
C10_OperationIffPrevious ==
    (state.operation # NoOperation) <=> (state.previousNumber # <<>>)

\* a recalled entry: operation and previousNumber both set
C10_Witness ==
    /\ IsCommand("SelectHistory")
    /\ state.operation # NoOperation
    /\ state.previousNumber # <<>>
    /\ ~Pending(Prev)

(***************************************************************************)
(* C11  History event emission by the reducer.  For an Equals command      *)
(* whose evaluation (chained Equals, awaiting-operand Equals or            *)
(* repeat-equals) gives a number, reduceOperator returns a history event   *)
(* with expression "<left> <op> <right>", left being the previousNumber    *)
(* used and right the right operand used, with that operator as operation, *)
(* that right operand as operand and the new currentNumber as result; for  *)
(* every other operator or Equals command it returns no event.             *)
(***************************************************************************)
C11_HistoryEmission ==
    IsCommand("Operator") =>
        LET r == reduceOperator(Prev, NewOp)
            e == Evaluation(Prev, NewOp)
        IN  IF EvaluatesToNumber(Prev, lastCommand)
            THEN r.history =
                   <<[expression |->
                          e[1] \o <<" ", toDisplayOperator(Prev.operation), " ">>
                               \o e[2],
                      result |-> state.currentNumber,
                      operation |-> Prev.operation,
                      operand |-> e[2]]>>
            ELSE r.history = null

\* 2 + = : the event of the awaiting-operand Equals is 2 + 2 with result 4
C11_Witness ==
    /\ IsEquals
    /\ Prev.currentNumber = <<>>
    /\ Prev.previousNumber = <<"2">>
    /\ Prev.operation = "+"
    /\ state.currentNumber = <<"4">>
    /\ pendingHistoryRef # null
    /\ pendingHistoryRef[1].expression = <<"2", " ", "+", " ", "2">>
    /\ pendingHistoryRef[1].operand = <<"2">>

(***************************************************************************)
(* C12  One ledger entry per evaluation.  After every command, once the    *)
(* commit step has run, the ledger has as many entries as Equals commands  *)
(* have been handled whose evaluation gave a number.                       *)
(***************************************************************************)
C12_OneEntryPerEvaluation == Settled => Len(history) = evaluations

\* the payload the updater of the command handled last leaves in
\* pendingHistoryRef: the event of an Equals, nothing after another
\* operator, else what the effect callback left there
Handed ==
    IF IsCommand("Operator")
    THEN IF NewOp = "=" THEN reduceOperator(Prev, "=").history ELSE null
    ELSE IF before.effectPending # <<>> THEN null
    ELSE before.pendingHistoryRef

\* the payload the effect callback run in the step taken last found in
\* pendingHistoryRef: the ref as it was before the step
Found == before.pendingHistoryRef

\* the ledger entry for payload, but for its id
SameRecord(entry, payload) ==
    /\ entry.expression = payload.expression
    /\ entry.result = payload.result
    /\ entry.operation = payload.operation
    /\ entry.operand = payload.operand

(***************************************************************************)
(* C13  Idempotent ledger commit.  The commit step run twice in immediate  *)
(* succession for the same history event adds one entry to the ledger:     *)
(* the second run queues no update and leaves the ledger as the first left *)
(* it.  (An event whose key is the key committed last is itself a repeated *)
(* commit and adds none.)  The effect callback the program runs is that    *)
(* first run.                                                              *)
(***************************************************************************)
C13_IdempotentCommit ==
    (RanEffect /\ Found # null) =>
        LET once == HistoryEffect(Found, before.lastHistoryKeyRef)
            twice == HistoryEffect(once.pending, once.lastKey)
            again == HistoryEffect(Found, once.lastKey)
            ledger1 == CommitEffect(Found, before.lastHistoryKeyRef, before.history)
            ledger2 == CommitEffect(Found, ledger1.lastKey, ledger1.history)
            fresh == HistoryKey(Found[1]) # before.lastHistoryKeyRef
        IN  /\ Len(once.update) = (IF fresh THEN 1 ELSE 0)
            /\ twice.update = <<>>
            /\ again.update = <<>>
            /\ again.lastKey = once.lastKey
            /\ ledger2.history = ledger1.history
            /\ Len(ledger1.history) =
                   Len(before.history) + (IF fresh THEN 1 ELSE 0)
            /\ fresh => SameRecord(ledger1.history[1], Found[1])
            \* what the program did is the first run, and then the write of
            \* the updater when the step is an operator command
            /\ pendingHistoryRef =
                   (IF IsCommand("Operator") THEN Handed ELSE once.pending)
            /\ lastHistoryKeyRef = once.lastKey
            /\ historyUpdates = before.historyUpdates \o once.update

\* 1 + 2 = after an earlier entry: the effect callback queues the event
\* 1 + 2 = 3 once
C13_Witness ==
    /\ lastCommand = <<"Effect">>
    /\ Found # null
    /\ Found[1].expression = <<"1", " ", "+", " ", "2">>
    /\ Len(history) = 1
    /\ Len(historyUpdates) = 1
    /\ HistoryEffect(Found, lastHistoryKeyRef).update = <<>>

(***************************************************************************)
(* C15  The ledger is append-only and newest-first.  No command, Clear and *)
(* recall included, and no effect callback changes the ledger; the render  *)
(* of the queued updates puts the new entries at its head, the newest      *)
(* first, the entries committed before following them unchanged and in the *)
(* same order.                                                             *)
(***************************************************************************)
C15_AppendOnly ==
    IF lastCommand = <<"RenderHistory">>
    THEN LET n == Len(before.historyUpdates)
         IN  /\ n >= 1
             /\ Len(history) = Len(before.history) + n
             /\ SubSeq(history, n + 1, Len(history)) = before.history
             /\ \A k \in 1..n :
                    SameRecord(history[k], before.historyUpdates[n + 1 - k])
    ELSE history = before.history

\* a second entry is committed in front of the first
C15_Witness ==
    /\ lastCommand = <<"RenderHistory">>
    /\ Len(before.history) = 1
    /\ Len(history) = 2
    /\ history[2] = before.history[1]
    /\ history[1].expression # history[2].expression

(***************************************************************************)
(* C16  History recall.  Selecting a ledger entry e gives the state with   *)
(* currentNumber = previousNumber = e.result, operation = e.operation,     *)
(* lastOperand = e.operand, isNewNumber true and historyExpression         *)
(* e.expression followed by " ="; this is the state the Equals that        *)
(* emitted e's event left; and an Equals handled right after the recall    *)
(* sets currentNumber to the text of                                       *)
(* compute(e.result, e.operation, e.operand).                              *)
(***************************************************************************)
C16_Recall ==
    /\ IsCommand("SelectHistory") =>
           LET e == before.history[lastCommand[2]]
           IN  /\ state = [currentNumber |-> e.result,
                           previousNumber |-> e.result,
                           operation |-> e.operation,
                           lastOperand |-> e.operand,
                           isNewNumber |-> TRUE,
                           historyExpression |-> e.expression \o <<" ", "=">>]
               /\ (OperatorInWindow(state, "=")
                      /\ ~IsDivisionByZero(e.operation, e.operand)) =>
                      reduceOperator(state, "=").next.currentNumber =
                          ComputeText(e.result, e.operation, e.operand)
               /\ IsDivisionByZero(e.operation, e.operand) =>
                      reduceOperator(state, "=").next = DIVISION_BY_ZERO_STATE
    /\ (IsEquals /\ Handed # null) =>
           onSelectHistory(setHistory(Handed[1], before.history)[1]) = state

\* 1 + 2 = Clear, then the entry is recalled: 3 is shown and Equals gives 5
C16_Witness ==
    /\ IsCommand("SelectHistory")
    /\ Prev = RESET_STATE
    /\ before.history[lastCommand[2]].expression = <<"1", " ", "+", " ", "2">>
    /\ state.currentNumber = <<"3">>
    /\ state.lastOperand = <<"2">>
    /\ reduceOperator(state, "=").next.currentNumber = <<"5">>

(***************************************************************************)
(* C17  Operator substitution.  An operator command handled in the         *)
(* awaiting-operand state (currentNumber empty, an operation pending) only *)
(* replaces operation by the new operator: nothing is evaluated,           *)
(* previousNumber, lastOperand, currentNumber and isNewNumber are          *)
(* unchanged and no history event is emitted; the state is again an        *)
(* awaiting-operand state, so this holds for any number of consecutive     *)
(* operator commands.                                                      *)
(***************************************************************************)
C17_Case ==
    /\ IsOperatorCommand
    /\ Prev.currentNumber = <<>>
    /\ Pending(Prev)

C17_OperatorSubstitution ==
    C17_Case =>
        /\ state.operation = NewOp
        /\ state.previousNumber = Prev.previousNumber
        /\ state.lastOperand = Prev.lastOperand
        /\ state.currentNumber = Prev.currentNumber
        /\ state.isNewNumber = Prev.isNewNumber
        /\ NoHistoryEvent

\* 2 + - * : the second substitution in a row, * for -
C17_Witness ==
    /\ C17_Case
    /\ steps = 4
    /\ Prev.historyExpression = <<"2", " ", "-">>
    /\ Prev.lastOperand = <<"2">>
    /\ NewOp = "*"
    /\ state.operation = "*"
    /\ state.previousNumber = <<"2">>
    /\ state.lastOperand = <<"2">>

(***************************************************************************)
(* C18  Equals in the awaiting-operand state.  When Equals is handled with *)
(* currentNumber empty and an operation pending, the right operand is      *)
(* lastOperand if it is non-empty and previousNumber otherwise; unless     *)
(* this is a division by zero, currentNumber and previousNumber become the *)
(* text of compute(previousNumber, operation, operand), lastOperand        *)
(* becomes the operand used, operation is kept and isNewNumber is true.    *)
(***************************************************************************)
C18_Case ==
    /\ IsEquals
    /\ Prev.currentNumber = <<>>
    /\ Pending(Prev)

\* the right operand of the Equals of C18_Case
C18_Operand ==
    IF Prev.lastOperand # <<>> THEN Prev.lastOperand ELSE Prev.previousNumber

C18_AwaitingEquals ==
    (C18_Case /\ ~IsDivisionByZero(Prev.operation, C18_Operand)) =>
        LET r == ComputeText(Prev.previousNumber, Prev.operation, C18_Operand)
        IN  /\ state.currentNumber = r
            /\ state.previousNumber = r
            /\ state.lastOperand = C18_Operand
            /\ state.operation = Prev.operation
            /\ state.isNewNumber

\* 2 - 1 = + = : lastOperand is empty after the +, so 1 + 1 is evaluated
C18_Witness ==
    /\ C18_Case
    /\ Prev.lastOperand = <<>>
    /\ Prev.previousNumber = <<"1">>
    /\ Prev.operation = "+"
    /\ state.currentNumber = <<"2">>
    /\ state.lastOperand = <<"1">>
    /\ Len(history) = 2

(***************************************************************************)
(* C19  First operator of a calculation.  An operator command handled with *)
(* a non-empty numeric currentNumber and no operation pending sets         *)
(* previousNumber to the text of that number, operation to the operator,   *)
(* lastOperand to the same text, currentNumber to empty and isNewNumber to *)
(* true, and emits no history event.                                       *)
(***************************************************************************)
C19_Case ==
    /\ IsOperatorCommand
    /\ IsNumberText(Prev.currentNumber)
    /\ ~Pending(Prev)

C19_FirstOperator ==
    C19_Case =>
        LET text == NumberToString(Value(Prev.currentNumber))
        IN  /\ state.previousNumber = text
            /\ state.operation = NewOp
            /\ state.lastOperand = text
            /\ state.currentNumber = <<>>
            /\ state.isNewNumber
            /\ NoHistoryEvent

\* 1 . 2 - : the number 1.2 becomes the left operand
C19_Witness ==
    /\ C19_Case
    /\ Prev.currentNumber = <<"1", ".", "2">>
    /\ ~Prev.isNewNumber
    /\ NewOp = "-"
    /\ state.previousNumber = <<"1", ".", "2">>
    /\ state.lastOperand = <<"1", ".", "2">>
    /\ state.operation = "-"

(***************************************************************************)
(* C20  Equals with no operation pending and a numeric currentNumber sets  *)
(* isNewNumber to true and changes nothing else: currentNumber,            *)
(* previousNumber, operation, lastOperand and historyExpression are        *)
(* unchanged and no history event is emitted.                              *)
(***************************************************************************)
C20_Case ==
    /\ IsEquals
    /\ ~Pending(Prev)
    /\ IsNumberText(Prev.currentNumber)

C20_EqualsNothingPending ==
    C20_Case =>
        /\ state = [Prev EXCEPT !.isNewNumber = TRUE]
        /\ NoHistoryEvent

\* 2 = : the 2 stays and the next digit starts a new number
C20_Witness ==
    /\ C20_Case
    /\ Prev.currentNumber = <<"2">>
    /\ ~Prev.isNewNumber
    /\ state.currentNumber = <<"2">>
    /\ state.isNewNumber

(***************************************************************************)
(* C14  No history event is lost.  A history event emitted by an Equals    *)
(* whose key differs from the key committed last is committed to the       *)
(* ledger as a new entry; until the commit step has processed it, no later *)
(* command discards or overwrites it - also when the Equals left           *)
(* currentNumber and historyExpression textually unchanged, as an Equals   *)
(* right after the recall of an older entry does.  Step by step: such an   *)
(* event is, after every step, still in pendingHistoryRef or the update    *)
(* queued last, and every queued update becomes an entry of the ledger.    *)
(***************************************************************************)
\* payload is queued for the ledger by the step taken last, or still pending
\* after it
C14_CommittedOrPending(payload) ==
    \/ /\ Len(historyUpdates) = Len(before.historyUpdates) + 1
       /\ SameRecord(historyUpdates[Len(historyUpdates)], payload)
    \/ /\ pendingHistoryRef # null
       /\ SameRecord(pendingHistoryRef[1], payload)

C14_NoEventLost ==
    \* the event an Equals emits
    /\ (IsEquals /\ Handed # null
                 /\ HistoryKey(Handed[1]) # before.lastHistoryKeyRef) =>
           C14_CommittedOrPending(Handed[1])
    \* the event still pending when a later step is taken
    /\ (lastCommand # <<>> /\ before.pendingHistoryRef # null
          /\ HistoryKey(before.pendingHistoryRef[1]) # before.lastHistoryKeyRef) =>
           C14_CommittedOrPending(before.pendingHistoryRef[1])
    \* the queued updates all become entries
    /\ lastCommand = <<"RenderHistory">> =>
           Len(history) = Len(before.history) + Len(before.historyUpdates)

(***************************************************************************)
(* C21  Digit entry.  A Digit command d replaces currentNumber by d and    *)
(* sets isNewNumber to false when isNewNumber is true or currentNumber is  *)
(* "0", and appends d to currentNumber otherwise; so currentNumber never   *)
(* has a redundant leading zero such as "00" or "05".                      *)
(***************************************************************************)
\* text starts with a zero that a further digit follows
LeadingZero(text) ==
    LET start == IF Len(text) >= 1 /\ text[1] = "-" THEN 2 ELSE 1
    IN  /\ Len(text) > start
        /\ text[start] = "0"
        /\ text[start + 1] \in DigitChars

C21_DigitEntry ==
    /\ IsCommand("Number") =>
           LET d == lastCommand[2]
           IN  IF Prev.isNewNumber \/ Prev.currentNumber = <<"0">>
               THEN state = [Prev EXCEPT !.currentNumber = <<d>>,
                                         !.isNewNumber = FALSE]
               ELSE state = [Prev EXCEPT
                                !.currentNumber = Prev.currentNumber \o <<d>>]
    /\ ~LeadingZero(state.currentNumber)

\* 0 1 : the typed 0 is replaced by the 1
C21_Witness ==
    /\ IsCommand("Number")
    /\ lastCommand[2] = "1"
    /\ Prev.currentNumber = <<"0">>
    /\ ~Prev.isNewNumber
    /\ state.currentNumber = <<"1">>

(***************************************************************************)
(* C22  Decimal point.  A Dot command sets currentNumber to "0." and       *)
(* isNewNumber to false when isNewNumber is true, changes nothing when     *)
(* currentNumber already contains a decimal point, and appends "."         *)
(* otherwise; in every reachable state currentNumber contains at most one  *)
(* decimal point.                                                          *)
(***************************************************************************)
C22_DecimalPoint ==
    /\ IsCommand("Dot") =>
           IF Prev.isNewNumber
           THEN state = [Prev EXCEPT !.currentNumber = <<"0", ".">>,
                                     !.isNewNumber = FALSE]
           ELSE IF \E i \in 1..Len(Prev.currentNumber) : Prev.currentNumber[i] = "."
           THEN state = Prev
           ELSE state = [Prev EXCEPT
                            !.currentNumber = Prev.currentNumber \o <<".">>]
    /\ Cardinality({i \in 1..Len(state.currentNumber) :
                       state.currentNumber[i] = "."}) <= 1

\* 1 . . : the second point is ignored
C22_Witness ==
    /\ IsCommand("Dot")
    /\ Prev.currentNumber = <<"1", ".">>
    /\ ~Prev.isNewNumber
    /\ state = Prev

(***************************************************************************)
(* C23  Backspace while entering.  A Backspace command handled with        *)
(* isNewNumber false drops the last character of currentNumber or, if that *)
(* would empty it, sets currentNumber to "0" and isNewNumber to true;      *)
(* previousNumber, operation and lastOperand are unchanged; a second       *)
(* Backspace after the buffer was reset to "0" changes nothing.            *)
(***************************************************************************)
C23_Case ==
    /\ IsCommand("Backspace")
    /\ ~Prev.isNewNumber

\* what the first Backspace does
C23_Entering ==
    C23_Case =>
        /\ IF Len(Prev.currentNumber) <= 1
           THEN state.currentNumber = <<"0">> /\ state.isNewNumber
           ELSE /\ state.currentNumber =
                       SubSeq(Prev.currentNumber, 1, Len(Prev.currentNumber) - 1)
                /\ ~state.isNewNumber
        /\ state.previousNumber = Prev.previousNumber
        /\ state.operation = Prev.operation
        /\ state.lastOperand = Prev.lastOperand

\* the claim as stated: the second Backspace is a no-op
C23_BackspaceEntering ==
    /\ C23_Entering
    /\ (C23_Case /\ Len(Prev.currentNumber) <= 1) => handleBackspace(state) = state

\* what the code does: the second Backspace leaves all but the expression
\* line, which it clears when it still shows a completed expression
C23_SecondBackspace ==
    /\ C23_Entering
    /\ (C23_Case /\ Len(Prev.currentNumber) <= 1) =>
           handleBackspace(state) =
               [state EXCEPT !.historyExpression =
                    IF \E i \in 1..Len(state.historyExpression) :
                           state.historyExpression[i] = "="
                    THEN <<>> ELSE state.historyExpression]

(***************************************************************************)
(* C24  Backspace on a display that is not being entered.  A Backspace     *)
(* command handled with isNewNumber true leaves currentNumber,             *)
(* previousNumber, operation, lastOperand and isNewNumber unchanged; it    *)
(* clears historyExpression when that contains "=" and leaves it           *)
(* otherwise; an Equals handled next evaluates what it would have          *)
(* evaluated without the Backspace.                                        *)
(***************************************************************************)
C24_Case ==
    /\ IsCommand("Backspace")
    /\ Prev.isNewNumber

C24_BackspaceResult ==
    C24_Case =>
        /\ state.currentNumber = Prev.currentNumber
        /\ state.previousNumber = Prev.previousNumber
        /\ state.operation = Prev.operation
        /\ state.lastOperand = Prev.lastOperand
        /\ state.isNewNumber
        /\ state.historyExpression =
               IF \E i \in 1..Len(Prev.historyExpression) :
                      Prev.historyExpression[i] = "="
               THEN <<>> ELSE Prev.historyExpression
        /\ OperatorInWindow(state, "=") =>
               LET with == reduceOperator(state, "=")
                   without == reduceOperator(Prev, "=")
               IN  /\ with.history = without.history
                   /\ with.next.currentNumber = without.next.currentNumber
                   /\ with.next.previousNumber = without.next.previousNumber
                   /\ with.next.operation = without.next.operation
                   /\ with.next.lastOperand = without.next.lastOperand

\* 1 + 2 = Backspace: the expression line is cleared, Equals still gives 5
C24_Witness ==
    /\ C24_Case
    /\ Prev.historyExpression = <<"1", " ", "+", " ", "2", " ", "=">>
    /\ state.historyExpression = <<>>
    /\ state.currentNumber = <<"3">>
    /\ reduceOperator(state, "=").next.currentNumber = <<"5">>

(***************************************************************************)
(* C25  In every reachable state where isNewNumber is true, currentNumber  *)
(* is non-empty and an operation is pending, the operand shown is a result *)
(* just computed or recalled: currentNumber equals previousNumber.         *)
(***************************************************************************)
C25_ResultDisplayed ==
    (state.isNewNumber /\ state.currentNumber # <<>> /\ Pending(state)) =>
        state.currentNumber = state.previousNumber

(***************************************************************************)
(* C26  In every reachable state lastOperand is non-empty only if          *)
(* operation is non-null.                                                  *)
(***************************************************************************)
C26_OperandNeedsOperation ==
    state.lastOperand # <<>> => state.operation # NoOperation

\* a digit typed over a result: the remembered operand and the operation stay
C26_Witness ==
    /\ IsCommand("Number")
    /\ Prev.isNewNumber
    /\ Prev.historyExpression = <<"1", " ", "-", " ", "2", " ", "=">>
    /\ state.lastOperand = <<"2">>
    /\ state.operation = "-"
    /\ ~state.isNewNumber

(***************************************************************************)
(* C27  In every reachable state where currentNumber is empty an operation *)
(* is pending and isNewNumber is true; Backspace never empties a buffer    *)
(* that holds text.                                                        *)
(***************************************************************************)
C27_EmptyBuffer ==
    /\ state.currentNumber = <<>> => (Pending(state) /\ state.isNewNumber)
    /\ (IsCommand("Backspace") /\ Prev.currentNumber # <<>>) =>
           state.currentNumber # <<>>

\* 1 + 2 * : the buffer is empty while the operand of * is awaited
C27_Witness ==
    /\ state.currentNumber = <<>>
    /\ IsOperatorCommand
    /\ Prev.currentNumber = <<"2">>
    /\ state.previousNumber = <<"3">>
    /\ state.operation = "*"
    /\ state.isNewNumber

(***************************************************************************)
(* C28  Arithmetic correctness.  For operand texts l and r that are short  *)
(* decimals and op among +, - and *, compute on the numbers the program    *)
(* has for l and r (binary64) gives the number whose notation is the exact *)
(* decimal result of l op r, with no digit more and none less (0.1 + 0.2   *)
(* gives 0.3, not 0.30000000000000004), and the calculator displays that   *)
(* text.  The exact result is the sum, difference or product of the        *)
(* operands' decimal digits in integer arithmetic.                         *)
(***************************************************************************)
\* the Equals handled last evaluated l op r with op among +, - and *
C28_Case ==
    /\ IsEquals
    /\ Evaluation(Prev, "=") # <<>>
    /\ IsNumberText(Evaluation(Prev, "=")[1])
    /\ IsNumberText(Evaluation(Prev, "=")[2])
    /\ Prev.operation \in {"+", "-", "*"}

\* the text of the exact decimal result of l op r for operand texts l and
\* r: integer arithmetic on the decimals' digits (the numbers times Scale)
C28_ExactText(l, op, r) ==
    NumberToString(CASE op = "+" -> Value(l) + Value(r)
                     [] op = "-" -> Value(l) - Value(r)
                     [] op = "*" -> (Value(l) * Value(r)) \div Scale)

C28_ExactArithmetic ==
    C28_Case =>
        LET l == Evaluation(Prev, "=")[1]
            r == Evaluation(Prev, "=")[2]
            op == Prev.operation
            result == compute64(parseFloat64(l)[1], op, parseFloat64(r)[1])
        IN  \* the product has no decimal place beyond those of the window
            /\ op = "*" => (Value(l) * Value(r)) % Scale = 0
            \* compute gives the exact decimal result
            /\ result # null
            /\ NumberToString64(result[1]) = C28_ExactText(l, op, r)
            \* and the calculator displays it
            /\ state.currentNumber = C28_ExactText(l, op, r)
            /\ ~LeadingZero(state.currentNumber)

\* 0.1 + 0.2 = shows 0.3, where the sum of the two binary64 numbers is
\* 0.30000000000000004
C28_Witness ==
    /\ C28_Case
    /\ Prev.previousNumber = <<"0", ".", "1">>
    /\ Prev.operation = "+"
    /\ Prev.currentNumber = <<"0", ".", "2">>
    /\ state.currentNumber = <<"0", ".", "3">>
    /\ NumberToString64(Binary64_add(parseFloat64(Prev.previousNumber)[1],
                                     parseFloat64(Prev.currentNumber)[1]))
           = <<"0", ".", "3", "0", "0", "0", "0", "0", "0", "0", "0", "0", "0",
               "0", "0", "0", "0", "0", "4">>

\* For all four operators the calculator of the state machine, which
\* computes in fixed point, displays after Equals the text that the chain
\* parseFloat, compute, toString gives on binary64 numbers, and the
\* division-by-zero message exactly when compute gives null.
FixedPointAgreesWithBinary64 ==
    (IsEquals /\ Evaluation(Prev, "=") # <<>>
              /\ IsNumberText(Evaluation(Prev, "=")[1])
              /\ IsNumberText(Evaluation(Prev, "=")[2])) =>
        LET l == Evaluation(Prev, "=")[1]
            r == Evaluation(Prev, "=")[2]
            result == compute64(parseFloat64(l)[1], Prev.operation,
                                parseFloat64(r)[1])
        IN  IF result = null
            THEN state.currentNumber = DIVISION_BY_ZERO_MESSAGE
            ELSE state.currentNumber = NumberToString64(result[1])

(***************************************************************************)
(* C29  Input classification.  The effect of a raw token is that of its    *)
(* canonical command: the keys Enter and = and the button = act as Equals; *)
(* the keys Escape, c and C and the button C act as Clear; the buttons     *)
(* with the glyphs for multiplication and division act as the keys * and / *)
(* do; a key with no canonical command leaves the calculator state and the *)
(* ledger unchanged.                                                       *)
(***************************************************************************)
\* the raw token handled last and where it came from
Token == lastCommand[Len(lastCommand)]
Source == lastCommand[Len(lastCommand) - 1]

\* the program after the command handled last, had it called setState for
\* next from program p with an updater that writes pendingHistoryRef as
\* write says (<<v>> for the value v, <<>> for no write)
Rendered(p, next, write) ==
    LET ran == p.effectPending # <<>>
        e == HistoryEffect(p.pendingHistoryRef, p.lastHistoryKeyRef)
        left == IF ran THEN e.pending ELSE p.pendingHistoryRef
    IN  [state |-> next,
         history |-> p.history,
         pendingHistoryRef |-> IF write = <<>> THEN left ELSE write[1],
         lastHistoryKeyRef |-> IF ran THEN e.lastKey ELSE p.lastHistoryKeyRef,
         effectPending |->
             IF next.currentNumber # p.state.currentNumber
                \/ next.historyExpression # p.state.historyExpression
             THEN <<lastCommand>> ELSE <<>>,
         historyUpdates |->
             IF ran THEN p.historyUpdates \o e.update ELSE p.historyUpdates]

\* the program after the canonical commands Equals, Clear and Operator(op)
AfterEquals(p) ==
    Rendered(p, reduceOperator(p.state, "=").next,
             <<reduceOperator(p.state, "=").history>>)
AfterClear(p) == Rendered(p, RESET_STATE, <<>>)
AfterOperator(p, op) == Rendered(p, reduceOperator(p.state, op).next, <<null>>)

\* the keys that have a canonical command
C29_KnownKeys ==
    DigitChars \cup {".", "+", "-", "*", "/", "Enter", "=", "Escape", "c", "C",
                     "Backspace"}

C29_InputClassification ==
    IsInput =>
        /\ (Source = "key" /\ Token \in {"Enter", "="}) => Program = AfterEquals(before)
        /\ (Source = "button" /\ Token = "=") => Program = AfterEquals(before)
        /\ (Source = "key" /\ Token \in {"Escape", "c", "C"}) =>
               Program = AfterClear(before)
        /\ (Source = "button" /\ Token = "C") => Program = AfterClear(before)
        /\ (Source = "key" /\ Token = "*") => Program = AfterOperator(before, "*")
        /\ (Source = "button" /\ Token = "U+00D7") =>
               Program = AfterOperator(before, "*")
        /\ (Source = "key" /\ Token = "/") => Program = AfterOperator(before, "/")
        /\ (Source = "button" /\ Token = "U+00F7") =>
               Program = AfterOperator(before, "/")
        /\ (Source = "key" /\ Token \notin C29_KnownKeys) => Program = before

\* 1 + 1 Enter: the key Enter evaluates as = does
C29_Witness ==
    /\ IsInput
    /\ Token = "Enter"
    /\ Prev.previousNumber = <<"1">>
    /\ Prev.currentNumber = <<"1">>
    /\ state.currentNumber = <<"2">>
    /\ pendingHistoryRef # null
    /\ pendingHistoryRef[1].result = <<"2">>

(***************************************************************************)
(* C30  The ledger gains an entry only in the commit step that directly    *)
(* follows an Equals command: the effect callback that a Digit, Dot,       *)
(* Backspace, Clear, operator or recall command schedules queues no update *)
(* for the ledger; the event of an earlier Equals is never committed late. *)
(* An effect callback that queues an update was scheduled by an Equals.    *)
(***************************************************************************)
C30_NoLateCommit ==
    (RanEffect /\ historyUpdates # before.historyUpdates) =>
        IsEqualsCommand(before.effectPending[1])

(***************************************************************************)
(* C31  Frame of digit and decimal point entry.  A Digit or Dot command    *)
(* changes neither previousNumber, operation, lastOperand nor              *)
(* historyExpression.  In particular a digit d typed on the result r of a  *)
(* completed a OP b = leaves OP pending with previousNumber = r, and the   *)
(* Equals that follows displays compute(r, OP, d): its text when it is a   *)
(* number, the division-by-zero message when compute signals a division by *)
(* zero.                                                                   *)
(***************************************************************************)
\* s displays the result of a completed evaluation
C31_Result(s) ==
    /\ s.isNewNumber
    /\ Pending(s)
    /\ s.lastOperand # <<>>
    /\ IsNumberText(s.currentNumber)
    /\ s.currentNumber = s.previousNumber

\* the command handled last is a digit typed on a displayed result
C31_Case ==
    /\ IsCommand("Number")
    /\ C31_Result(Prev)

C31_EntryFrame ==
    /\ (IsCommand("Number") \/ IsCommand("Dot")) =>
           /\ state.previousNumber = Prev.previousNumber
           /\ state.operation = Prev.operation
           /\ state.lastOperand = Prev.lastOperand
           /\ state.historyExpression = Prev.historyExpression
    /\ C31_Case =>
           LET r == Prev.currentNumber
               OP == Prev.operation
               d == <<lastCommand[2]>>
           IN  /\ state.currentNumber = d
               /\ ~state.isNewNumber
               /\ Pending(state)
               /\ state.operation = OP
               /\ state.previousNumber = r
               /\ OperatorInWindow(state, "=") =>
                      reduceOperator(state, "=").next.currentNumber =
                          IF IsDivisionByZero(OP, d) THEN DIVISION_BY_ZERO_MESSAGE
                          ELSE ComputeText(r, OP, d)

\* 1 + 2 = 1 : + stays pending on the result 3, and = would display 4
C31_Witness ==
    /\ C31_Case
    /\ Prev.currentNumber = <<"3">>
    /\ Prev.operation = "+"
    /\ Prev.lastOperand = <<"2">>
    /\ lastCommand[2] = "1"
    /\ state.previousNumber = <<"3">>
    /\ reduceOperator(state, "=").next.currentNumber = <<"4">>

(***************************************************************************)
(* C32  Variant equivalence.  For every session of Digit, Dot, Operator,   *)
(* Equals, Clear and Backspace commands the history-enabled calculator,    *)
(* projected onto currentNumber, previousNumber, operation, lastOperand    *)
(* and isNewNumber, passes through the states of the earlier history-less  *)
(* calculator.  Both start in the same projected state, so the two runs    *)
(* agree on every session exactly when each command handled in a reachable *)
(* state takes the projection of that state to the projection of the next: *)
(* the state the earlier calculator gives for the command, from the        *)
(* projection of the state before it, is the projection of the state the   *)
(* history-enabled calculator gives.                                       *)
(***************************************************************************)
Projection(s) ==
    [currentNumber |-> s.currentNumber,
     previousNumber |-> s.previousNumber,
     operation |-> s.operation,
     lastOperand |-> s.lastOperand,
     isNewNumber |-> s.isNewNumber]

C32_VariantEquivalence ==
    /\ steps = 0 => Projection(state) = Earlier_RESET_STATE
    /\ IsInput =>
           Projection(state) = Earlier_Handle(Projection(Prev), lastCommand)
    \* the effect callback and the render of the ledger leave the state alone
    /\ (lastCommand # <<>> /\ ~IsInput) => state = Prev

\* 1 + 2 = Backspace : the expression line is removed, which the earlier
\* calculator does not have, and the five fields stay as they are
C32_Witness ==
    /\ IsCommand("Backspace")
    /\ Prev.isNewNumber
    /\ Prev.currentNumber = <<"3">>
    /\ Prev.lastOperand = <<"2">>
    /\ Includes(Prev.historyExpression, "=")
    /\ state.historyExpression = <<>>
    /\ Projection(state) = Earlier_handleBackspace(Projection(Prev))

====
